---- MODULE Spec2Model ----
(***************************************************************************)
(* A model of woodchipper: the interactive renderer's state and loop       *)
(* (src/renderer/interactive), the reordering reader (src/reader/          *)
(* ordered.rs), the stdin readers and the parser chain (src/reader,        *)
(* src/parser/mod.rs) and the shutdown handshake of main (src/main.rs).    *)
(*                                                                         *)
(* Indices (FilteredEntry.index, Selection.rel_index, range_min,           *)
(* range_max, the keys of anchors) are 0-based as in the source; TLA+      *)
(* sequences are 1-based, so At(s, i) reads element i of a Vec.            *)
(* An Option<T> is a sequence: << >> is None and <<x>> is Some(x).         *)
(***************************************************************************)
EXTENDS Integers, Sequences, FiniteSets, TLC

VARIABLES
  rs,   \* the RenderState owned by the interactive renderer thread
  lp,   \* the locals of the interactive_renderer loop, its channel and the terminal
  ro,   \* the read_ordered worker: its channels, heap and position
  rd,   \* a stdin reader worker and the parser chain it calls per line
  mn,   \* the main thread's shutdown handshake with the reader
  cr    \* the chunks a call into src/renderer/common.rs works on, and its result

vars == <<rs, lp, ro, rd, mn, cr>>

(***************************************************************************)
(* Bounds of the model                                                     *)
(***************************************************************************)
\* Spec: the most entries the entry list holds (the source's list is unbounded)
MaxEntries == 3
\* Spec: the deepest filter stack (the source's stack is unbounded)
MaxFilters == 1
\* SpecFilter: the most entries and the deepest filter stack
FMaxEntries == 3
FMaxFilters == 2

(***************************************************************************)
(* Helpers                                                                 *)
(***************************************************************************)
None == << >>
Some(x) == <<x>>
At(s, i) == s[i + 1]
Max2(a, b) == IF a >= b THEN a ELSE b
Min2(a, b) == IF a <= b THEN a ELSE b
CeilDiv(a, b) == (a + b - 1) \div b
Last(s) == s[Len(s)]
IsPrefix(s, t) == Len(s) <= Len(t) /\ SubSeq(t, 1, Len(s)) = s

(***************************************************************************)
(* Messages and filters.  A Message is reduced to what the modelled code   *)
(* reads: its kind, the words a filter query can find in its searchable    *)
(* fields, and the length of its text in columns, which decides how many   *)
(* lines it renders to.  origin records who built it: the reader, or the   *)
(* UI itself through MessageEntry::internal.                               *)
(***************************************************************************)
Words == {"a", "int"}

MsgPlainA == [kind |-> "plain", words |-> {"a"}, len |-> 1, origin |-> "reader"]
MsgPlainLong == [kind |-> "plain", words |-> {}, len |-> 2, origin |-> "reader"]
MsgReaderInternal == [kind |-> "internal", words |-> {"int"}, len |-> 1, origin |-> "reader"]

\* what a reader may send
ReaderMsgs == {MsgPlainA, MsgPlainLong, MsgReaderInternal}

\* MessageEntry::internal(text): kind Internal, level Int
MessageEntry_internal == [kind |-> "internal", words |-> {"int"}, len |-> 1, origin |-> "ui"]

\* the filters a user can build: a query and the inverted flag
FilterSet == [query : Words, inverted : BOOLEAN]

\* the messages and the filters of Spec, which also varies selection and size
SpecMsgs == {MsgPlainA, MsgPlainLong}
SpecFilters == {[query |-> "a", inverted |-> FALSE], [query |-> "int", inverted |-> TRUE]}

\* the filter the search bar of Spec parses from its input
SearchFilters == {[query |-> "a", inverted |-> FALSE]}

\* Filter::filter_pass: the query is found in a searchable field (the empty
\* query is found in every field)
Filter_filter_pass(f, message) == f.query = "" \/ f.query \in message.words

\* the mutant of Filter_filter: the inverted flag is ignored
Filter_filter_ignores_inverted(f, message) == Filter_filter_pass(f, message)

\* Filter::filter: filter_pass, negated when the filter is inverted
Filter_filter(f, message) ==
  IF f.inverted THEN ~Filter_filter_pass(f, message) ELSE Filter_filter_pass(f, message)

(***************************************************************************)
(* The terminal.  A terminal has at least one column and one row; widths   *)
(* are in units of the message length above.                               *)
(***************************************************************************)
Widths == {1, 2}
Heights == {1, 3}

\* styled_render(entry, profile, Some(width)).len(): the text wraps at width
rendered_height(entry, width) == Max2(1, CeilDiv(entry.len, Max2(width, 1)))

(***************************************************************************)
(* src/renderer/interactive/state.rs                                       *)
(***************************************************************************)
\* TextBuffer::new().with_styler(styler_base): input is the sequence of the
\* characters typed, position the 1-based cursor
TextBuffer_new == [input |-> << >>, position |-> 1, styler |-> "base"]

\* BarState::new
BarState_new == [active |-> "Status"]

\* FilterBarState::new
FilterBarState_new == [mode |-> "Regex", text |-> TextBuffer_new, inverted |-> FALSE]

\* SearchBarState::new
SearchBarState_new ==
  [mode |-> "Regex", text |-> TextBuffer_new, inverted |-> FALSE, filter |-> None]

\* LogState::new
LogState_new == [range_min |-> 0, range_max |-> 0, anchors |-> << >>, selection |-> None]

\* RenderState::new; panicked is the model's record of a Rust panic
RenderState_new ==
  [width |-> 0, height |-> 0,
   entries |-> << >>, filters |-> << >>, filtered_entries |-> << >>,
   highlight_filter |-> None, eof |-> FALSE,
   log |-> LogState_new,
   bar |-> BarState_new,
   filter |-> FilterBarState_new,
   search |-> SearchBarState_new,
   panicked |-> FALSE]

\* filter_pass(state, entry): every filter of the stack accepts the message
filter_pass(filters, entry) ==
  \A k \in 1..Len(filters) : Filter_filter(filters[k], entry)

\* the FilteredEntry list rebuilt from entries: enumerate().filter().map()
RECURSIVE refilter(_, _, _)
refilter(entries, filters, i) ==
  IF i >= Len(entries) THEN << >>
  ELSE (IF filter_pass(filters, At(entries, i))
          THEN <<[index |-> i, entry |-> At(entries, i)]>>
          ELSE << >>) \o refilter(entries, filters, i + 1)

\* the mutant of add_filter: the filter is pushed, filtered_entries is not rebuilt
add_filter_no_rebuild(state, filter) ==
  [state EXCEPT !.filters = Append(@, filter), !.log.selection = None]

\* actions::add_filter
add_filter(state, filter) ==
  LET filters == Append(state.filters, filter)
  IN [state EXCEPT !.filters = filters,
                   !.log.selection = None,
                   !.filtered_entries = refilter(state.entries, filters, 0)]

\* actions::pop_filter (Vec::pop on an empty Vec does nothing)
pop_filter(state) ==
  LET filters == IF state.filters = << >> THEN << >>
                 ELSE SubSeq(state.filters, 1, Len(state.filters) - 1)
  IN [state EXCEPT !.log.selection = None,
                   !.filters = filters,
                   !.filtered_entries = refilter(state.entries, filters, 0)]

\* the mutant of set_highlight_filter: the rows are filtered by the highlight
\* filter as well
set_highlight_filter_rows(state, filter) ==
  [state EXCEPT !.highlight_filter = filter,
                !.filtered_entries =
                   IF filter = None THEN refilter(state.entries, state.filters, 0)
                   ELSE refilter(state.entries, Append(state.filters, filter[1]), 0)]

\* actions::set_highlight_filter
set_highlight_filter(state, filter) == [state EXCEPT !.highlight_filter = filter]

\* the mutant of add_entry: the entry joins filtered_entries without the filter test
add_entry_unfiltered(state, entry) ==
  LET entries == Append(state.entries, entry)
  IN [state EXCEPT !.entries = entries,
                   !.filtered_entries =
                      Append(@, [index |-> Len(entries) - 1, entry |-> Last(entries)])]

\* the mutant of add_entry: a passing entry is put in front of the filtered list
add_entry_front(state, entry) ==
  LET entries == Append(state.entries, entry)
  IN IF filter_pass(state.filters, entry)
       THEN [state EXCEPT !.entries = entries,
                          !.filtered_entries =
                             <<[index |-> Len(entries) - 1, entry |-> Last(entries)]>> \o @]
       ELSE [state EXCEPT !.entries = entries]

\* actions::add_entry
add_entry(state, entry) ==
  LET entries == Append(state.entries, entry)
  IN IF filter_pass(state.filters, entry)
       THEN [state EXCEPT !.entries = entries,
                          !.filtered_entries =
                             Append(@, [index |-> Len(entries) - 1, entry |-> Last(entries)])]
       ELSE [state EXCEPT !.entries = entries]

\* actions::internal
internal(state) == add_entry(state, MessageEntry_internal)

\* actions::set_eof
set_eof(state, eof) == [state EXCEPT !.eof = eof]

(***************************************************************************)
(* src/renderer/interactive/log.rs                                         *)
(***************************************************************************)
Anchor(offset, height) == [offset |-> offset, height |-> height]
Selection(rel_index, anchor) == [rel_index |-> rel_index, anchor |-> anchor]

\* the lines a filtered entry renders to at the state's width
entry_lines(state, i) == rendered_height(At(state.filtered_entries, i).entry, state.width)

\* measure_entry(state, abs_index): reads state.entries, not filtered_entries
measure_entry(state, abs_index) == rendered_height(At(state.entries, abs_index), state.width)

\* render_int, the loop "render as many entries below it as possible":
\* r is [y_pos, range_max, anchors]; entry i is drawn from row y_pos down
RECURSIVE render_down(_, _, _, _)
render_down(state, end_y, i, r) ==
  IF i >= Len(state.filtered_entries) THEN r
  ELSE LET lines == entry_lines(state, i)
           r2 == [y_pos |-> Min2(r.y_pos + lines, end_y),
                  range_max |-> i,
                  anchors |-> (i :> Anchor(end_y - r.y_pos, Some(lines))) @@ r.anchors]
       IN IF r.y_pos + lines >= end_y THEN r2
          ELSE render_down(state, end_y, i + 1, r2)

\* render_int, the loop "now reset y_pos and render upward":
\* r is [y_pos, range_min, anchors]; entry i is drawn from row y_pos up
RECURSIVE render_up(_, _, _, _)
render_up(state, end_y, i, r) ==
  IF i < 0 THEN r
  ELSE LET lines == entry_lines(state, i)
           r2 == [y_pos |-> Max2(r.y_pos - lines, 0),
                  range_min |-> i,
                  anchors |-> (i :> Anchor(Max2(0, end_y - (r.y_pos - lines + 1)),
                                           Some(lines))) @@ r.anchors]
       IN IF lines >= r.y_pos + 1 THEN r2
          ELSE render_up(state, end_y, i - 1, r2)

\* the mutant of realign: the top row of the entry stays where it was
realign_top(start_y, diff, height) == Min2(start_y, height - 1)

\* render_int, "update the position to keep it anchored": the new start_y of
\* an entry whose height changed by diff
realign(start_y, diff, height) == Min2(Max2(start_y + diff, 0), height - 1)

\* render_int: one render pass over the log area; the rows written to the
\* terminal are those the anchors record
render_int(state) ==
  IF state.filtered_entries = << >> \/ state.height < 2
    THEN [state EXCEPT !.log.range_min = 0, !.log.range_max = 0, !.log.anchors = << >>]
  ELSE
    LET n == Len(state.filtered_entries)
        end_y == state.height - 1
        sel == state.log.selection
        start_selected == sel # None
        start_index == IF start_selected THEN sel[1].rel_index ELSE n - 1
    IN IF start_index >= n
         THEN \* filtered_entries[start_index]: index out of bounds
              [state EXCEPT !.panicked = TRUE, !.log.anchors = << >>]
       ELSE
         LET y0 == IF start_selected
                     THEN (IF sel[1].anchor.offset <= end_y
                             THEN end_y - sel[1].anchor.offset ELSE end_y)
                     ELSE end_y
             start_height == IF start_selected THEN sel[1].anchor.height ELSE None
             start_lines == entry_lines(state, start_index)
             diff == IF start_height # None THEN start_height[1] - start_lines ELSE 0
             \* the message height has changed: keep it anchored
             y1 == IF diff # 0 THEN realign(y0, diff, state.height) ELSE y0
             sel1 == IF diff # 0 /\ start_selected
                       THEN Some(Selection(sel[1].rel_index,
                                           Anchor(end_y - y1, Some(start_lines))))
                       ELSE sel
             \* the entry won't fit: adjust the anchor to make room
             nofit == y1 + start_lines > end_y
             start_y == IF nofit THEN Max2(end_y - start_lines, 0) ELSE y1
             sel2 == IF nofit /\ start_selected
                       THEN Some(Selection(sel[1].rel_index,
                                           Anchor(end_y - start_y, Some(start_lines))))
                       ELSE sel1
             y_first == Min2(start_y + start_lines, end_y)
             a0 == (start_index :> Anchor(end_y - start_y, Some(start_lines)))
             down == IF y_first < end_y
                       THEN render_down(state, end_y, start_index + 1,
                              [y_pos |-> y_first, range_max |-> start_index, anchors |-> a0])
                       ELSE [y_pos |-> y_first, range_max |-> start_index, anchors |-> a0]
             up == IF start_y > 0 /\ start_index > 0
                     THEN render_up(state, end_y, start_index - 1,
                            [y_pos |-> start_y - 1, range_min |-> start_index,
                             anchors |-> down.anchors])
                     ELSE [y_pos |-> start_y, range_min |-> start_index,
                           anchors |-> down.anchors]
         IN [state EXCEPT !.log.range_min = up.range_min,
                          !.log.range_max = down.range_max,
                          !.log.anchors = up.anchors,
                          !.log.selection = sel2]

\* log::render
render(state) == render_int(state)

\* state.height - 1 on a u16: with height 0 the subtraction overflows
height_minus_1_overflows(state) == state.height = 0

\* the mutant of move_selection: the new index is not checked against the length
move_selection_unchecked(state, amount) ==
  IF amount = 0 \/ state.filtered_entries = << >> THEN state
  ELSE LET cur == state.log.selection
           new == IF cur # None THEN Max2(cur[1].rel_index - amount, 0)
                  ELSE Max2(Len(state.filtered_entries) - amount, 0)
       IN [state EXCEPT !.log.selection = Some(Selection(new, Anchor(0, None)))]

\* the mutant of move_selection: a move below the latest entry stops on it
move_selection_clamped(state, amount) ==
  IF amount = 0 \/ state.filtered_entries = << >> THEN state
  ELSE LET n == Len(state.filtered_entries)
           cur == state.log.selection
       IN IF cur = None
            THEN IF amount < 0 THEN state
                 ELSE [state EXCEPT !.log.selection =
                         Some(Selection(Max2(n - amount, 0), Anchor(0, None)))]
            ELSE [state EXCEPT !.log.selection =
                    Some(Selection(Min2(Max2(cur[1].rel_index - amount, 0), n - 1),
                                   Anchor(0, None)))]

\* actions::move_selection
move_selection(state, amount) ==
  IF amount = 0 THEN state
  ELSE IF Len(state.filtered_entries) = 0 THEN state
  ELSE
    LET n == Len(state.filtered_entries)
        cur == state.log.selection
        new == IF cur # None THEN Max2(cur[1].rel_index - amount, 0)
               ELSE Max2(n - amount, 0)
    IN IF cur # None /\ new >= n THEN [state EXCEPT !.log.selection = None]
       ELSE IF cur = None /\ amount < 0 THEN [state EXCEPT !.log.selection = None]
       ELSE
         LET desired_index == new
         IN IF desired_index < state.log.range_min
              THEN \* off-screen and early/above
                   IF height_minus_1_overflows(state)
                     THEN [state EXCEPT !.panicked = TRUE]
                     ELSE [state EXCEPT !.log.selection =
                             Some(Selection(desired_index, Anchor(state.height - 1, None)))]
            ELSE IF desired_index > state.log.range_max
              THEN \* off-screen and later/below
                   [state EXCEPT !.log.selection =
                      Some(Selection(desired_index, Anchor(0, None)))]
            ELSE \* already on-screen
              IF desired_index \notin DOMAIN state.log.anchors
                THEN \* anchors[&desired_index]: no entry found for key
                     [state EXCEPT !.panicked = TRUE]
              ELSE IF height_minus_1_overflows(state)
                THEN [state EXCEPT !.panicked = TRUE]
              ELSE
                LET anchor == state.log.anchors[desired_index]
                    anchor_height == IF anchor.height # None THEN anchor.height[1] ELSE 0
                    offset == IF anchor.offset > state.height - 1 THEN state.height - 1
                              ELSE IF anchor.offset - anchor_height < 0 THEN anchor_height
                              ELSE anchor.offset
                IN [state EXCEPT !.log.selection =
                      Some(Selection(desired_index, Anchor(offset, anchor.height)))]

\* actions::move_selection_to_index
move_selection_to_index(state, index) ==
  LET amount == IF state.log.selection # None
                  THEN state.log.selection[1].rel_index - index
                  ELSE Len(state.filtered_entries) - index
  IN move_selection(state, amount)

\* actions::move_selection_to_top
move_selection_to_top(state) ==
  LET index == IF state.log.selection # None THEN state.log.selection[1].rel_index
               ELSE Len(state.filtered_entries)
  IN move_selection(state, index)

\* move_selection_page_up, the loop counting the entries of one page:
\* returns running_count
RECURSIVE page_up_count(_, _, _, _, _)
page_up_count(state, rel_index, max_height, running_height, running_count) ==
  LET next_height == measure_entry(state, rel_index - running_count - 1)
  IN IF running_height + next_height > max_height THEN running_count
     ELSE IF running_count + 1 >= rel_index THEN running_count + 1
     ELSE page_up_count(state, rel_index, max_height,
                        running_height + next_height, running_count + 1)

\* actions::move_selection_page_up
move_selection_page_up(state) ==
  IF state.log.selection # None
    THEN LET selection == state.log.selection[1]
         IN IF selection.rel_index = 0 THEN state
            ELSE IF selection.rel_index = state.log.range_min
              THEN move_selection(state,
                     page_up_count(state, selection.rel_index, state.height - 2, 0, 0))
            ELSE move_selection(state, selection.rel_index - state.log.range_min)
    ELSE move_selection(state, Len(state.filtered_entries) - state.log.range_min)

\* move_selection_page_down, the loop counting the entries of one page
RECURSIVE page_down_count(_, _, _, _, _, _)
page_down_count(state, sel_index, filtered_len, max_height, running_height, running_count) ==
  LET next_height == measure_entry(state, sel_index + running_count + 1)
  IN IF running_height + next_height > max_height THEN running_count
     ELSE IF sel_index + (running_count + 1) + 1 >= filtered_len THEN running_count + 1
     ELSE page_down_count(state, sel_index, filtered_len, max_height,
                          running_height + next_height, running_count + 1)

\* actions::move_selection_page_down
move_selection_page_down(state) ==
  IF state.log.selection # None
    THEN LET sel_index == state.log.selection[1].rel_index
             filtered_len == Len(state.filtered_entries)
         IN IF sel_index = filtered_len - 1 THEN move_selection(state, -1)
            ELSE IF sel_index = state.log.range_max
              THEN move_selection(state,
                     0 - page_down_count(state, sel_index, filtered_len,
                                         state.height - 2, 0, 0))
            ELSE move_selection(state, sel_index - state.log.range_max)
    ELSE state

\* actions::clear_selection
clear_selection(state) == [state EXCEPT !.log.selection = None]


(***************************************************************************)
(* src/renderer/interactive/search_bar.rs                                  *)
(***************************************************************************)
\* the first index in lo..hi-1 whose entry matches the filter, as Option
RECURSIVE first_match(_, _, _, _)
first_match(state, filter, lo, hi) ==
  IF lo >= hi THEN None
  ELSE IF Filter_filter(filter, At(state.filtered_entries, lo).entry) THEN Some(lo)
  ELSE first_match(state, filter, lo + 1, hi)

\* the last index in lo..hi-1 whose entry matches the filter, as Option
RECURSIVE last_match(_, _, _, _)
last_match(state, filter, lo, hi) ==
  IF lo >= hi THEN None
  ELSE IF Filter_filter(filter, At(state.filtered_entries, hi - 1).entry) THEN Some(hi - 1)
  ELSE last_match(state, filter, lo, hi - 1)

\* search_bar::actions::update_filter, given what the input parses to
update_filter(state, parsed) == [state EXCEPT !.search.filter = parsed]

\* search_bar::actions::update_highlight
update_highlight(state) == set_highlight_filter(state, state.search.filter)

\* search_bar::actions::next_match
next_match(state, soft) ==
  IF state.search.filter = None THEN state
  ELSE
    LET filter == state.search.filter[1]
        max == Len(state.filtered_entries)
        sel == state.log.selection
        min == IF sel # None
                 THEN sel[1].rel_index + (IF ~soft /\ sel[1].rel_index + 1 < max THEN 1 ELSE 0)
                 ELSE 0
        index == first_match(state, filter, min, max)
    IN IF index # None THEN move_selection_to_index(state, index[1])
       ELSE clear_selection(internal(state))

\* the mutant of prev_match: without a match the selection is kept
prev_match_keeping(state) ==
  IF state.search.filter = None THEN state
  ELSE
    LET filter == state.search.filter[1]
        sel == state.log.selection
        max == IF sel # None THEN sel[1].rel_index ELSE Len(state.filtered_entries)
        index == last_match(state, filter, 0, max)
    IN IF index # None THEN move_selection_to_index(state, index[1])
       ELSE internal(state)

\* search_bar::actions::prev_match
prev_match(state) ==
  IF state.search.filter = None THEN state
  ELSE
    LET filter == state.search.filter[1]
        sel == state.log.selection
        max == IF sel # None THEN sel[1].rel_index ELSE Len(state.filtered_entries)
        index == last_match(state, filter, 0, max)
    IN IF index # None THEN move_selection_to_index(state, index[1])
       ELSE clear_selection(internal(state))

\* search_bar::input on a text edit: update_filter, a soft next_match,
\* update_highlight
search_input_update(state, parsed) ==
  update_highlight(next_match(update_filter(state, parsed), TRUE))

\* status_bar::input on 'p'
status_input_p(state) ==
  IF state.filters = << >> THEN internal(state) ELSE pop_filter(state)

(***************************************************************************)
(* src/renderer/interactive/text.rs.  A key is a string: a character of    *)
(* CharKeys is KeyEvent::Char of it, "Enter" is Char('\n'), "Ctrl-r" is    *)
(* Ctrl('r'), the others are the KeyEvent of that name.                    *)
(***************************************************************************)
CharKeys == {"a", "[", "f", "/", "p", "x", "q"}

\* the String of a sequence of characters
RECURSIVE concat(_)
concat(input) == IF input = << >> THEN "" ELSE Head(input) \o concat(Tail(input))

\* String::remove and String::insert at a 0-based index
String_remove(input, idx) == SubSeq(input, 1, idx) \o SubSeq(input, idx + 2, Len(input))
String_insert(input, idx, c) == SubSeq(input, 1, idx) \o <<c>> \o SubSeq(input, idx + 1, Len(input))

\* text::actions::clear_input
text_clear_input(text) == [text EXCEPT !.input = << >>, !.position = 1]

\* text::actions::pop_input_back
pop_input_back(text) ==
  LET pos == text.position
      len == Len(text.input)
  IN IF pos > len
       THEN IF len > 0
              THEN [text EXCEPT !.input = SubSeq(@, 1, len - 1), !.position = len]
              ELSE [text EXCEPT !.position = 1]
     ELSE IF pos > 1
       THEN [text EXCEPT !.input = String_remove(@, pos - 2), !.position = @ - 1]
     ELSE text

\* text::actions::pop_input_forward
pop_input_forward(text) ==
  LET pos == text.position
      len == Len(text.input)
  IN IF pos > len THEN text
     ELSE IF len > 0 THEN [text EXCEPT !.input = String_remove(@, pos - 1)]
     ELSE text

\* text::actions::push_input
push_input(text, c) ==
  LET pos == text.position
      len == Len(text.input)
  IN [text EXCEPT !.input = IF pos > len THEN Append(@, c) ELSE String_insert(@, pos - 1, c),
                  !.position = @ + 1]

\* text::actions::cursor_left
cursor_left(text) == IF text.position > 1 THEN [text EXCEPT !.position = @ - 1] ELSE text

\* text::actions::cursor_right
cursor_right(text) ==
  IF text.position <= Len(text.input) THEN [text EXCEPT !.position = @ + 1] ELSE text

\* a TextInputAction: its variant, the InputAction it carries, and the input
\* a Submit carries
TextInputAction(kind, a, input) == [kind |-> kind, a |-> a, input |-> input]

\* text::input: the new TextBuffer and the TextInputAction
text_input(text, key) ==
  CASE key = "Esc" ->
         [text |-> text_clear_input(text), action |-> TextInputAction("Exit", "Rerender", << >>)]
    [] key = "Backspace" ->
         IF text.input # << >>
           THEN [text |-> pop_input_back(text),
                 action |-> TextInputAction("Update", "Rerender", << >>)]
           ELSE [text |-> text, action |-> TextInputAction("Exit", "Rerender", << >>)]
    [] key = "Delete" ->
         [text |-> pop_input_forward(text),
          action |-> TextInputAction("Update", "Rerender", << >>)]
    [] key = "Enter" ->
         [text |-> text, action |-> TextInputAction("Submit", "Rerender", text.input)]
    [] key = "Left" ->
         [text |-> cursor_left(text), action |-> TextInputAction("Action", "Rerender", << >>)]
    [] key = "Right" ->
         [text |-> cursor_right(text), action |-> TextInputAction("Action", "Rerender", << >>)]
    [] key \in CharKeys ->
         [text |-> push_input(text, key),
          action |-> TextInputAction("Update", "Rerender", << >>)]
    [] OTHER ->
         [text |-> text, action |-> TextInputAction("Action", "Unhandled", << >>)]

(***************************************************************************)
(* src/filter.rs: FilterMode                                               *)
(***************************************************************************)
\* FilterMode::parse, as Option: FullTextFilter::new accepts every query;
\* Regex::new rejects a query with an unclosed "["
FilterMode_parse(mode, input, inverted) ==
  IF mode = "Regex" /\ \E k \in 1..Len(input) : input[k] = "["
    THEN None
    ELSE Some([query |-> concat(input), inverted |-> inverted])

\* FilterMode::next
FilterMode_next(mode) == IF mode = "Text" THEN "Regex" ELSE "Text"

\* the styler update_style chooses for an input in a mode
styler_of(mode, input, inverted) ==
  IF input = << >> \/ FilterMode_parse(mode, input, inverted) # None THEN "base" ELSE "error"

\* the filter update_highlight and update_filter build from an input
filter_of(mode, input, inverted) ==
  IF input = << >> THEN None ELSE FilterMode_parse(mode, input, inverted)

(***************************************************************************)
(* src/renderer/interactive/bar.rs and filter_bar.rs                       *)
(***************************************************************************)
\* bar::actions::set_active
set_active(state, active) == [state EXCEPT !.bar.active = active]

\* filter_bar::actions::update_highlight
filter_update_highlight(state) ==
  set_highlight_filter(state,
    filter_of(state.filter.mode, state.filter.text.input, state.filter.inverted))

\* filter_bar::actions::update_style
filter_update_style(state) ==
  [state EXCEPT !.filter.text.styler =
     styler_of(state.filter.mode, state.filter.text.input, state.filter.inverted)]

\* filter_bar::actions::clear_input
filter_clear_input(state) == [state EXCEPT !.filter.text = text_clear_input(@)]

\* filter_bar::actions::next_mode
filter_next_mode(state) == [state EXCEPT !.filter.mode = FilterMode_next(@)]

\* filter_bar::actions::toggle_inverted
filter_toggle_inverted(state) == [state EXCEPT !.filter.inverted = ~@]

\* the mutant of filter_submit: a text that does not parse is cleared
filter_submit_clearing(state, input) ==
  LET parsed == FilterMode_parse(state.filter.mode, input, state.filter.inverted)
  IN IF parsed # None
       THEN add_filter(
              filter_update_style(filter_update_highlight(
                set_active(filter_clear_input(state), "Status"))),
              parsed[1])
       ELSE internal(set_active(filter_clear_input(state), "Status"))

\* filter_bar::input, the arm of TextInputAction::Submit
filter_submit(state, input) ==
  LET parsed == FilterMode_parse(state.filter.mode, input, state.filter.inverted)
  IN IF parsed # None
       THEN add_filter(
              filter_update_style(filter_update_highlight(
                set_active(filter_clear_input(state), "Status"))),
              parsed[1])
       ELSE internal(state)

\* filter_bar::input
filter_bar_input(state, key) ==
  LET r == text_input(state.filter.text, key)
      s0 == [state EXCEPT !.filter.text = r.text]
      s1 == CASE r.action.kind = "Action" -> s0
              [] r.action.kind = "Exit" ->
                   set_active(filter_update_style(filter_update_highlight(s0)), "Status")
              [] r.action.kind = "Submit" -> filter_submit(s0, r.action.input)
              [] r.action.kind = "Update" ->
                   filter_update_style(filter_update_highlight(s0))
  IN IF r.action.a = "Unhandled"
       THEN CASE key = "Ctrl-r" ->
                   [state |-> filter_update_style(filter_update_highlight(filter_next_mode(s1))),
                    action |-> "Rerender"]
              [] key = "Ctrl-e" ->
                   [state |-> filter_update_style(filter_update_highlight(
                                filter_toggle_inverted(s1))),
                    action |-> "Rerender"]
              [] OTHER -> [state |-> s1, action |-> "Unhandled"]
       ELSE [state |-> s1, action |-> r.action.a]

(***************************************************************************)
(* src/renderer/interactive/search_bar.rs: input                           *)
(***************************************************************************)
\* search_bar::actions::update_filter on the text of the search bar
search_update_filter(state) ==
  update_filter(state,
    filter_of(state.search.mode, state.search.text.input, state.search.inverted))

\* search_bar::actions::update_style
search_update_style(state) ==
  [state EXCEPT !.search.text.styler =
     styler_of(state.search.mode, state.search.text.input, state.search.inverted)]

\* search_bar::actions::next_mode
search_next_mode(state) == [state EXCEPT !.search.mode = FilterMode_next(@)]

\* search_bar::actions::toggle_inverted
search_toggle_inverted(state) == [state EXCEPT !.search.inverted = ~@]

\* update_filter, a soft next_match, update_highlight, update_style
search_refresh(state) ==
  search_update_style(update_highlight(next_match(search_update_filter(state), TRUE)))

\* search_bar::input
search_bar_input(state, key) ==
  LET r == text_input(state.search.text, key)
      s0 == [state EXCEPT !.search.text = r.text]
      s1 == CASE r.action.kind = "Action" -> s0
              [] r.action.kind = "Exit" ->
                   set_active(
                     search_update_style(update_highlight(search_update_filter(s0))),
                     "Status")
              [] r.action.kind = "Submit" -> next_match(s0, FALSE)
              [] r.action.kind = "Update" -> search_refresh(s0)
  IN IF r.action.a = "Unhandled"
       THEN CASE key = "Ctrl-p" -> [state |-> prev_match(s1), action |-> "Rerender"]
              [] key = "Ctrl-n" -> [state |-> next_match(s1, FALSE), action |-> "Rerender"]
              [] key = "Ctrl-r" ->
                   [state |-> search_refresh(search_next_mode(s1)), action |-> "Rerender"]
              [] key = "Ctrl-e" ->
                   [state |-> search_refresh(search_toggle_inverted(s1)),
                    action |-> "Rerender"]
              [] OTHER -> [state |-> s1, action |-> "Unhandled"]
       ELSE [state |-> s1, action |-> r.action.a]

(***************************************************************************)
(* src/renderer/interactive/status_bar.rs and bar.rs: input.  The keys of  *)
(* the clipboard ('c', 'C', Ctrl-c) are not among the model's keys.        *)
(***************************************************************************)
\* status_bar::input
status_bar_input(state, key) ==
  CASE key = "Esc" ->
         IF state.log.selection # None
           THEN [state |-> clear_selection(state), action |-> "Rerender"]
           ELSE [state |-> state, action |-> "Exit"]
    [] key = "q" -> [state |-> state, action |-> "Exit"]
    [] key = "f" -> [state |-> set_active(state, "Filter"), action |-> "Rerender"]
    [] key = "/" -> [state |-> set_active(state, "Search"), action |-> "Rerender"]
    [] key = "p" -> [state |-> status_input_p(state), action |-> "Rerender"]
    [] key = "Ctrl-f" -> [state |-> set_active(state, "Search"), action |-> "Rerender"]
    [] OTHER -> [state |-> state, action |-> "Unhandled"]

\* bar::input_global
input_global(state, key) ==
  CASE key = "Ctrl-q" -> [state |-> state, action |-> "Exit"]
    [] key = "Up" -> [state |-> move_selection(state, 1), action |-> "Rerender"]
    [] key = "Down" -> [state |-> move_selection(state, -1), action |-> "Rerender"]
    [] key = "Home" -> [state |-> move_selection_to_top(state), action |-> "Rerender"]
    [] key = "End" -> [state |-> clear_selection(state), action |-> "Rerender"]
    [] key = "PageUp" -> [state |-> move_selection_page_up(state), action |-> "Rerender"]
    [] key = "PageDown" -> [state |-> move_selection_page_down(state), action |-> "Rerender"]
    [] OTHER -> [state |-> state, action |-> "Unhandled"]

\* bar::input
bar_input(state, key) ==
  LET g == input_global(state, key)
  IN IF g.action # "Unhandled" THEN g
     ELSE CASE g.state.bar.active = "Status" -> status_bar_input(g.state, key)
            [] g.state.bar.active = "Filter" -> filter_bar_input(g.state, key)
            [] g.state.bar.active = "Search" -> search_bar_input(g.state, key)

(***************************************************************************)
(* src/renderer/common.rs.  A RenderedChunk is reduced to its content (a   *)
(* sequence of one-column tokens), its width and the four flags the        *)
(* functions below read; kind, weight and alignment are not read by them.  *)
(***************************************************************************)
\* a RenderedChunk
RenderedChunk(content, pad_left, pad_right, break_after, force_break_after) ==
  [content |-> content, width |-> Len(content),
   pad_left |-> pad_left, pad_right |-> pad_right,
   break_after |-> break_after, force_break_after |-> force_break_after]

\* the text of the given width made of one token
text_of(token, width) == [k \in 1..width |-> token]

\* RenderedChunk::spacer
RenderedChunk_spacer(width) == RenderedChunk(text_of(" ", width), TRUE, TRUE, FALSE, FALSE)

\* merge_chunks, the loop from chunk i on; acc is the chunk built so far
RECURSIVE merge_loop(_, _, _)
merge_loop(chunks, i, acc) ==
  IF i >= Len(chunks) THEN acc
  ELSE LET chunk == At(chunks, i)
           pad == i > 0 /\ (acc.pad_right \/ chunk.pad_left)
       IN IF chunk.width = 0 THEN merge_loop(chunks, i + 1, acc)
          ELSE merge_loop(chunks, i + 1,
                 [content |-> acc.content \o (IF pad THEN <<" ">> ELSE << >>) \o chunk.content,
                  width |-> acc.width + (IF pad THEN 1 ELSE 0) + chunk.width,
                  pad_left |-> acc.pad_left \/ (i = 0 /\ chunk.pad_left),
                  pad_right |-> chunk.pad_right,
                  break_after |-> chunk.break_after,
                  force_break_after |-> chunk.force_break_after])

\* merge_chunks
merge_chunks(chunks) ==
  merge_loop(chunks, 0, RenderedChunk(<< >>, FALSE, FALSE, FALSE, FALSE))

\* merge_chunks_unpadded, the loop from chunk i on
RECURSIVE merge_unpadded_loop(_, _, _)
merge_unpadded_loop(chunks, i, acc) ==
  IF i >= Len(chunks) THEN acc
  ELSE LET chunk == At(chunks, i)
       IN IF chunk.width = 0 THEN merge_unpadded_loop(chunks, i + 1, acc)
          ELSE merge_unpadded_loop(chunks, i + 1,
                 [content |-> acc.content \o chunk.content,
                  width |-> acc.width + chunk.width,
                  pad_left |-> IF i = 0 THEN chunk.pad_left ELSE acc.pad_left,
                  pad_right |-> chunk.pad_right,
                  break_after |-> chunk.break_after,
                  force_break_after |-> chunk.force_break_after])

\* merge_chunks_unpadded
merge_chunks_unpadded(chunks) ==
  merge_unpadded_loop(chunks, 0, RenderedChunk(<< >>, FALSE, FALSE, FALSE, FALSE))

\* measure_chunks, the loop from chunk i on
RECURSIVE measure_loop(_, _, _, _)
measure_loop(chunks, i, width, last_child_pad_right) ==
  IF i >= Len(chunks) THEN width
  ELSE LET chunk == At(chunks, i)
           pad == i > 0 /\ (last_child_pad_right \/ chunk.pad_left)
       IN measure_loop(chunks, i + 1,
            width + (IF pad THEN 1 ELSE 0) + chunk.width, chunk.pad_right)

\* measure_chunks
measure_chunks(chunks) == measure_loop(chunks, 0, 0, FALSE)

\* largest_chunk
RECURSIVE largest_chunk(_)
largest_chunk(chunks) ==
  IF chunks = << >> THEN 0 ELSE Max2(Head(chunks).width, largest_chunk(Tail(chunks)))

\* wrap_chunks, "while let Some(chunk) = collected_chunks.pop_front()"; w
\* holds the locals of the function
RECURSIVE wrap_loop(_, _, _)
wrap_loop(collected_chunks, max_width, w) ==
  IF collected_chunks = << >> THEN Append(w.lines, w.current_line)
  ELSE
    LET chunk == Head(collected_chunks)
        rest == Tail(collected_chunks)
        padded_width == (IF w.i > 0 /\ (w.last_pad_right \/ chunk.pad_left) THEN 1 ELSE 0)
                          + chunk.width
        wrap_length == w.line_width + padded_width > max_width
        wrap_early == w.current_line_will_wrap /\ w.last_break_after
        wrap_slightly_early ==
          /\ rest # << >>
          /\ ~chunk.pad_right /\ ~Head(rest).pad_left
          /\ w.line_width + padded_width + Head(rest).width > max_width
        should_wrap == \/ wrap_length \/ wrap_early \/ wrap_slightly_early
                       \/ w.last_force_break_after
        wraps == w.line_width > 0 /\ should_wrap
    IN wrap_loop(rest, max_width,
         [i |-> w.i + 1,
          lines |-> IF wraps THEN Append(w.lines, w.current_line) ELSE w.lines,
          current_line |-> IF wraps THEN <<chunk>> ELSE Append(w.current_line, chunk),
          current_line_will_wrap |->
            IF wraps THEN measure_chunks(rest) > max_width ELSE w.current_line_will_wrap,
          line_width |-> (IF wraps THEN 0 ELSE w.line_width) + padded_width,
          last_pad_right |-> IF wraps THEN FALSE ELSE chunk.pad_right,
          last_break_after |-> IF wraps THEN FALSE ELSE chunk.break_after,
          last_force_break_after |-> chunk.force_break_after])

\* wrap_chunks: the lines, each the sequence of its chunks
wrap_chunks(chunks, max_width) ==
  wrap_loop(chunks, max_width,
    [i |-> 0, lines |-> << >>, current_line |-> << >>,
     current_line_will_wrap |-> measure_chunks(chunks) > max_width,
     line_width |-> 0, last_pad_right |-> FALSE, last_break_after |-> FALSE,
     last_force_break_after |-> FALSE])

\* simple_wrap_chunks, the loop; the result is the lines
RECURSIVE simple_wrap_loop(_, _, _, _)
simple_wrap_loop(chunks, lines, current_line, last_force_break_after) ==
  IF chunks = << >> THEN Append(lines, current_line)
  ELSE LET chunk == Head(chunks)
       IN IF last_force_break_after
            THEN simple_wrap_loop(Tail(chunks), Append(lines, current_line), <<chunk>>,
                                  chunk.force_break_after)
            ELSE simple_wrap_loop(Tail(chunks), lines, Append(current_line, chunk),
                                  chunk.force_break_after)

\* simple_wrap_chunks
simple_wrap_chunks(chunks) == simple_wrap_loop(chunks, << >>, << >>, FALSE)

\* left_pad_chunk
left_pad_chunk(chunk, max_width) ==
  IF max_width >= chunk.width
    THEN merge_chunks_unpadded(<<chunk, RenderedChunk_spacer(max_width - chunk.width)>>)
    ELSE chunk

\* right_pad_chunk
right_pad_chunk(chunk, max_width) ==
  IF max_width >= chunk.width
    THEN merge_chunks_unpadded(<<RenderedChunk_spacer(max_width - chunk.width), chunk>>)
    ELSE chunk

(***************************************************************************)
(* styled_render (src/renderer/common.rs).  A Chunk is reduced to the      *)
(* fields read here.  The values of the model's chunks are not split by    *)
(* textwrap (no wrap width reaches a chunk with wrap = true), so           *)
(* styled_render_chunk renders a value as one RenderedChunk.               *)
(***************************************************************************)
\* a Chunk (src/classifier/types.rs); value is an Option of the text
Chunk(kind, slot, alignment, weight, value, pad_left, pad_right, break_after, force_break_after, children) ==
  [kind |-> kind, slot |-> slot, alignment |-> alignment, weight |-> weight, value |-> value,
   pad_left |-> pad_left, pad_right |-> pad_right,
   break_after |-> break_after, force_break_after |-> force_break_after,
   children |-> children]

\* ChunkWeight::value
ChunkWeight_value(weight) ==
  CASE weight = "Low" -> 0 - 10
    [] weight = "Normal" -> 0
    [] weight = "Medium" -> 10
    [] weight = "High" -> 20

\* fixed_width
fixed_width(kind) ==
  CASE kind = "Date" -> Some(10)
    [] kind = "Time" -> Some(8)
    [] kind = "Level" -> Some(7)
    [] OTHER -> None

\* align: format! pads the content to the width and never cuts it
align(content, width, alignment) ==
  LET fill == [k \in 1..(IF width > Len(content) THEN width - Len(content) ELSE 0) |-> " "]
  IN IF alignment = "Left" THEN content \o fill ELSE fill \o content

\* styled_render_chunk, and its flat_map over a sequence of chunks
RECURSIVE styled_render_chunk(_, _)
RECURSIVE flat_render(_, _)
styled_render_chunk(chunk, wrap_width) ==
  (IF chunk.value # None
     THEN <<RenderedChunk(IF fixed_width(chunk.kind) # None
                            THEN align(chunk.value[1], fixed_width(chunk.kind)[1],
                                       chunk.alignment)
                            ELSE chunk.value[1],
                          chunk.pad_left, chunk.pad_right,
                          chunk.break_after, chunk.force_break_after)>>
     ELSE << >>)
    \o flat_render(chunk.children, wrap_width)

flat_render(chunks, wrap_width) ==
  IF chunks = << >> THEN << >>
  ELSE styled_render_chunk(Head(chunks), wrap_width) \o flat_render(Tail(chunks), wrap_width)

\* ".map(|line_chunks| merge_chunks(line_chunks, &profile))"
merge_lines(lines) == [n \in 1..Len(lines) |-> merge_chunks(lines[n])]

\* styled_render_region
styled_render_region(chunks, wrap_width) ==
  LET rendered_chunks == flat_render(chunks, wrap_width)
  IN IF wrap_width # None
       THEN merge_lines(wrap_chunks(rendered_chunks, wrap_width[1]))
       ELSE merge_lines(simple_wrap_chunks(rendered_chunks))

\* prune
prune(chunks, min) == SelectSeq(chunks, LAMBDA c : c.weight >= min)

\* prune_level
prune_level(wrap_width) ==
  IF wrap_width # None /\ wrap_width[1] < 60 THEN "High"
  ELSE IF wrap_width # None /\ wrap_width[1] < 80 THEN "Medium"
  ELSE IF wrap_width # None /\ wrap_width[1] < 100 THEN "Normal"
  ELSE "Low"

\* bucketize: the chunks of one slot
bucketize(chunks, slot) == SelectSeq(chunks, LAMBDA c : c.slot = slot)

\* styled_render: left_rendered
styled_left_rendered(entry, wrap_width) ==
  styled_render_region(
    prune(bucketize(entry.chunks, "Left"), ChunkWeight_value(prune_level(wrap_width))),
    None)

\* styled_render: right_rendered
styled_right_rendered(entry, wrap_width) ==
  styled_render_region(
    prune(bucketize(entry.chunks, "Right"), ChunkWeight_value(prune_level(wrap_width))),
    None)

\* styled_render: "right_is_empty || left_width + right_width + 2 > wrap_width"
no_room_for_right(entry, wrap_width) ==
  \/ bucketize(entry.chunks, "Right") = << >>
  \/ largest_chunk(styled_left_rendered(entry, wrap_width))
       + largest_chunk(styled_right_rendered(entry, wrap_width)) + 2 > wrap_width[1]

\* styled_render: "rendered.get(i).unwrap_or(&spacer)"
get_or(rendered, i, spacer) == IF i < Len(rendered) THEN At(rendered, i) ELSE spacer

\* styled_render: the rows, and whether the call panicked.  The subtraction
\* "wrap_width - left_width - 1" underflows for a width below left_width + 1:
\* a build with overflow checks panics there, one without goes on to format
\* a spacer of nearly 2^64 columns and dies of it; both end the call without
\* rows
styled_render(entry, wrap_width) ==
  LET min_weight == ChunkWeight_value(prune_level(wrap_width))
      left_rendered == styled_left_rendered(entry, wrap_width)
      left_width == largest_chunk(left_rendered)
      right_rendered == styled_right_rendered(entry, wrap_width)
      right_width == largest_chunk(right_rendered)
      underflows == /\ wrap_width # None
                    /\ no_room_for_right(entry, wrap_width)
                    /\ wrap_width[1] < left_width + 1
      center_width ==
        IF wrap_width # None
          THEN IF no_room_for_right(entry, wrap_width)
                 THEN wrap_width[1] - left_width - 1
                 ELSE wrap_width[1] - left_width - right_width - 2
          ELSE 0
      center_rendered ==
        styled_render_region(prune(bucketize(entry.chunks, "Center"), min_weight),
                             Some(center_width))
      max_height == Max2(Len(left_rendered), Max2(Len(center_rendered), Len(right_rendered)))
      row(i) ==
        merge_chunks(<<get_or(left_rendered, i, RenderedChunk_spacer(left_width)),
                       left_pad_chunk(get_or(center_rendered, i, RenderedChunk_spacer(center_width)),
                                      center_width),
                       right_pad_chunk(get_or(right_rendered, i, RenderedChunk_spacer(right_width)),
                                       right_width)>>).content
  IN IF underflows
       THEN [rows |-> << >>, panicked |-> TRUE]
       ELSE [rows |-> [n \in 1..max_height |-> row(n - 1)], panicked |-> FALSE]

(***************************************************************************)
(* The classifiers (src/classifier).  A Message is reduced to its text     *)
(* (an Option of its lines) and its metadata map (a set of key/value       *)
(* records, one per key); the messages of the model have the default       *)
(* level, no timestamp, no reader metadata and none of the keys the        *)
(* source, kelog and context classifiers look for, so those return no      *)
(* chunk and consume no field.  Text is a sequence of one-column tokens.   *)
(***************************************************************************)
\* Chunk::measure
RECURSIVE Chunk_measure(_)
RECURSIVE children_measure(_)
Chunk_measure(chunk) ==
  (IF chunk.value # None THEN Len(chunk.value[1]) ELSE 0)
    + (IF chunk.pad_left THEN 1 ELSE 0) + (IF chunk.pad_right THEN 1 ELSE 0)
    + children_measure(chunk.children)

\* Chunk::measure, "for child in &self.children"
children_measure(children) ==
  IF children = << >> THEN 0
  ELSE Chunk_measure(Head(children))
         + (IF Head(children).pad_left THEN 1 ELSE 0)
         + (IF Head(children).pad_right THEN 1 ELSE 0)
         + children_measure(Tail(children))

\* classify_timestamp, for a message without a timestamp
classify_timestamp(message) ==
  <<Chunk("Date", "Left", "Right", ChunkWeight_value("Normal"), Some(<<"-">>),
          FALSE, TRUE, FALSE, FALSE, << >>),
    Chunk("Time", "Left", "Right", ChunkWeight_value("Medium"), Some(<<"-">>),
          FALSE, TRUE, FALSE, FALSE, << >>)>>

\* classify_level, for a message without a level: "plain"
classify_level(message) ==
  <<Chunk("Level", "Left", "Right", ChunkWeight_value("High"),
          Some(<<"p", "l", "a", "i", "n">>), TRUE, TRUE, TRUE, FALSE, << >>)>>

\* classify_text: one chunk for each line of the text
classify_text(message) ==
  IF message.text = None THEN << >>
  ELSE [n \in 1..Len(message.text[1]) |->
          Chunk("Text", "Center", "Left", ChunkWeight_value("High"),
                Some(message.text[1][n]), TRUE, TRUE, TRUE,
                Len(message.text[1]) > 1, << >>)]

\* field_to_chunk
field_to_chunk(field) ==
  Chunk("Field", "Center", "Left", ChunkWeight_value("High"), None,
        FALSE, FALSE, FALSE, FALSE,
        <<Chunk("FieldKey", "Left", "Left", ChunkWeight_value("Normal"),
                Some(field.key \o <<"=">>), TRUE, FALSE, FALSE, FALSE, << >>),
          Chunk("FieldValue", "Left", "Left", ChunkWeight_value("Normal"),
                Some(field.val), FALSE, TRUE, FALSE, FALSE, << >>)>>)

\* slice::sort_by_key(|c| c.measure()): a stable sort, here by insertion
RECURSIVE insert_by_measure(_, _)
insert_by_measure(sorted, chunk) ==
  IF sorted = << >> THEN <<chunk>>
  ELSE IF Chunk_measure(Head(sorted)) <= Chunk_measure(chunk)
    THEN <<Head(sorted)>> \o insert_by_measure(Tail(sorted), chunk)
    ELSE <<chunk>> \o sorted

RECURSIVE sort_by_measure(_, _)
sort_by_measure(chunks, sorted) ==
  IF chunks = << >> THEN sorted
  ELSE sort_by_measure(Tail(chunks), insert_by_measure(sorted, Head(chunks)))

\* classify_metadata; iteration is the order in which message.metadata.iter()
\* yields the entries of the HashMap, consumed the fields taken earlier
classify_metadata(iteration, consumed) ==
  LET kept == SelectSeq(iteration,
                LAMBDA field : field.key \notin consumed /\ field.val # << >>)
  IN sort_by_measure([n \in 1..Len(kept) |-> field_to_chunk(kept[n])], << >>)

\* classify: the chunks of every classifier of CLASSIFIERS, in order
classify(message, iteration) ==
  classify_timestamp(message) \o classify_level(message) \o classify_text(message)
    \o classify_metadata(iteration, {})

\* the orders in which a HashMap may yield the entries of a map
HashMap_iter(map) ==
  {order \in [1..Cardinality(map) -> map] :
     \A i, j \in 1..Cardinality(map) : i # j => order[i] # order[j]}

(***************************************************************************)
(* The interactive renderer's polling of the terminal size                 *)
(* (src/renderer/interactive/mod.rs, lines 97 to 106)                      *)
(***************************************************************************)
set_size(state, width, height) ==
  IF width # state.width \/ height # state.height
    THEN [state EXCEPT !.width = width, !.height = height]
    ELSE state

(***************************************************************************)
(* Idle values of the parts a specification does not exercise              *)
(***************************************************************************)
LoopIdle == [pc |-> "idle"]
OrderedIdle == [pc |-> "idle"]
ReaderIdle == [pc |-> "idle"]
MainIdle == [pc |-> "idle"]
CommonIdle == [pc |-> "idle"]

(***************************************************************************)
(* Spec: the actions on the RenderState, in any order.  Every render pass  *)
(* follows a poll of the terminal size, as in the loop.                    *)
(***************************************************************************)
\* the renderer thread runs until it panics; the entry list stays bounded
Allowed(new) == ~rs.panicked /\ Len(new.entries) <= MaxEntries

\* the parts Spec leaves alone
others == <<lp, ro, rd, mn, cr>>

AddEntry ==
  \E m \in SpecMsgs :
    /\ Allowed(add_entry(rs, m))
    /\ rs' = add_entry(rs, m)
    /\ UNCHANGED others

AddFilter ==
  \E f \in SpecFilters :
    /\ Len(rs.filters) < MaxFilters
    /\ Allowed(add_filter(rs, f))
    /\ rs' = add_filter(rs, f)
    /\ UNCHANGED others

PopFilter ==
  /\ Allowed(status_input_p(rs))
  /\ rs' = status_input_p(rs)
  /\ UNCHANGED others

KeyUp ==
  /\ Allowed(rs)
  /\ rs' = move_selection(rs, 1)
  /\ UNCHANGED others

KeyDown ==
  /\ Allowed(rs)
  /\ rs' = move_selection(rs, -1)
  /\ UNCHANGED others

KeyHome ==
  /\ Allowed(rs)
  /\ rs' = move_selection_to_top(rs)
  /\ UNCHANGED others

KeyEnd ==
  /\ Allowed(rs)
  /\ rs' = clear_selection(rs)
  /\ UNCHANGED others

KeyPageUp ==
  /\ Allowed(rs)
  /\ rs' = move_selection_page_up(rs)
  /\ UNCHANGED others

KeyPageDown ==
  /\ Allowed(rs)
  /\ rs' = move_selection_page_down(rs)
  /\ UNCHANGED others

SearchUpdate ==
  \E parsed \in {None} \cup {Some(f) : f \in SearchFilters} :
    /\ Allowed(search_input_update(rs, parsed))
    /\ rs' = search_input_update(rs, parsed)
    /\ UNCHANGED others

SearchNext ==
  /\ Allowed(next_match(rs, FALSE))
  /\ rs' = next_match(rs, FALSE)
  /\ UNCHANGED others

SearchPrev ==
  /\ Allowed(prev_match(rs))
  /\ rs' = prev_match(rs)
  /\ UNCHANGED others

Resize ==
  \E w \in Widths, h \in Heights :
    /\ Allowed(rs)
    /\ rs' = set_size(rs, w, h)
    /\ UNCHANGED others

RenderPass ==
  \E w \in Widths, h \in Heights :
    /\ Allowed(rs)
    /\ rs' = render(set_size(rs, w, h))
    /\ UNCHANGED others

Init ==
  /\ cr = CommonIdle
  /\ rs = RenderState_new
  /\ lp = LoopIdle
  /\ ro = OrderedIdle
  /\ rd = ReaderIdle
  /\ mn = MainIdle

Next ==
  \/ AddEntry \/ AddFilter \/ PopFilter
  \/ KeyUp \/ KeyDown \/ KeyHome \/ KeyEnd \/ KeyPageUp \/ KeyPageDown
  \/ SearchUpdate \/ SearchNext \/ SearchPrev
  \/ Resize \/ RenderPass

Spec == Init /\ [][Next]_vars

\* C2: in every state of the renderer, whichever of the actions of Spec led to
\* it, there is no selection or the selection's rel_index is at least 0 and
\* less than the length of filtered_entries.
C2_SelectionInRange ==
  \/ rs.log.selection = None
  \/ /\ rs.log.selection[1].rel_index >= 0
     /\ rs.log.selection[1].rel_index < Len(rs.filtered_entries)

\* C2's case: a filter hides an entry and the last of the filtered entries
\* is selected, with more than one filtered entry to move over
C2_Witness ==
  /\ rs.log.selection # None
  /\ Len(rs.filtered_entries) >= 2
  /\ Len(rs.filtered_entries) < Len(rs.entries)
  /\ rs.log.selection[1].rel_index = Len(rs.filtered_entries) - 1

(***************************************************************************)
(* SpecFilter: add_entry, add_filter and pop_filter alone, in any order,   *)
(* with every message and every filter                                     *)
(***************************************************************************)
FilterMsgs == ReaderMsgs \cup {MessageEntry_internal}

FilterAddEntry ==
  \E m \in FilterMsgs :
    /\ Len(rs.entries) < FMaxEntries
    /\ rs' = add_entry(rs, m)
    /\ UNCHANGED others

FilterAddFilter ==
  \E f \in FilterSet :
    /\ Len(rs.filters) < FMaxFilters
    /\ rs' = add_filter(rs, f)
    /\ UNCHANGED others

FilterPopFilter ==
  /\ rs' = pop_filter(rs)
  /\ UNCHANGED others

NextFilter == FilterAddEntry \/ FilterAddFilter \/ FilterPopFilter

SpecFilter == Init /\ [][NextFilter]_vars

\* the positions of entries whose message passes every filter of the stack
passing(entries, filters) ==
  {i \in 0..(Len(entries) - 1) :
     \A k \in 1..Len(filters) : Filter_filter(filters[k], At(entries, i))}

\* C1: after any sequence of add_entry, add_filter and pop_filter,
\* filtered_entries holds exactly the entries that pass every filter on the
\* stack, each once, in the order of entries, and each FilteredEntry's index
\* is the position of its entry in entries.
C1_FilteredIsPassingSubsequence ==
  LET fe == rs.filtered_entries
  IN /\ {fe[j].index : j \in 1..Len(fe)} = passing(rs.entries, rs.filters)
     /\ \A j \in 1..Len(fe) : fe[j].entry = At(rs.entries, fe[j].index)
     /\ \A j, k \in 1..Len(fe) : j < k => fe[j].index < fe[k].index

\* C1's case: two filters are on the stack, and of three entries some pass
\* both and some do not
C1_Witness ==
  /\ Len(rs.filters) = 2
  /\ rs.filters[1] # rs.filters[2]
  /\ Len(rs.entries) = 3
  /\ Len(rs.filtered_entries) \in {1, 2}

(***************************************************************************)
(* src/reader/ordered.rs: the reorder worker.  ro is the worker:           *)
(*   pc      where the thread is: start, sleep, drain, evict, done         *)
(*   buffer_ms  config.buffer_ms, an Option                                *)
(*   rx      the channel from the wrapped reader, oldest first             *)
(*   heap    the BinaryHeap, as the set of its TimestampedEntry            *)
(*   tx      every LogEntry sent downstream so far, oldest first           *)
(*   sent    how many LogEntry the wrapped reader has produced             *)
(*   dropped the heap as it was when the thread ended                      *)
(* A TimestampedEntry keeps held, the monotonic time since received, in    *)
(* place of the Instant; held stops counting at the buffer duration.       *)
(***************************************************************************)
\* SpecOrdered: the most LogEntry the wrapped reader produces
MaxSent == 2
\* SpecOrdered: thread::sleep lasts its duration or up to this many times it
MaxSleepFactor == 2

DEFAULT_BUFFER_MS == 1000
\* the duration of the worker's thread::sleep
SleepMs == 100

\* the values of timestamp_millis
Timestamps == {1, 2}
\* the values of config.buffer_ms
BufferChoices == {None, Some(200)}

\* the MessageEntry a wrapped reader produces; id is the order of arrival
OrderedMsgs(id) ==
  {[kind |-> "plain", timestamp |-> t, meta_timestamp |-> None, id |-> id] :
     t \in {Some(x) : x \in Timestamps}}
  \cup {[kind |-> "plain", timestamp |-> None, meta_timestamp |-> Some(1), id |-> id],
        [kind |-> "plain", timestamp |-> None, meta_timestamp |-> None, id |-> id],
        [kind |-> "internal", timestamp |-> None, meta_timestamp |-> None, id |-> id]}

LogEntry_message(m) == [message |-> Some(m), eof |-> None]
LogEntry_eof == [message |-> None, eof |-> Some("eof")]
\* LogEntry::internal: the worker's own note
LogEntry_internal ==
  LogEntry_message([kind |-> "internal", timestamp |-> None,
                    meta_timestamp |-> None, id |-> 0])

\* TimestampedEntry::new; utc_now is Utc::now().timestamp_millis()
TimestampedEntry_new(entry, utc_now) ==
  [held |-> 0,
   timestamp |-> IF entry.timestamp # None THEN entry.timestamp[1]
                 ELSE IF entry.meta_timestamp # None THEN entry.meta_timestamp[1]
                 ELSE utc_now,
   entry |-> entry]

\* buffer_duration, in ms
buffer_duration(w) ==
  IF w.buffer_ms # None THEN w.buffer_ms[1] ELSE DEFAULT_BUFFER_MS

\* a mutant of heap_peek: the heap hands out any of its entries
heap_peek_any(heap) == heap

\* the mutant of heap_peek: the heap hands out the entry that arrived first
heap_peek_fifo(heap) ==
  {e \in heap : \A o \in heap : e.entry.id <= o.entry.id}

\* BinaryHeap::peek under the inverted Ord: an entry of the least timestamp;
\* which one of several equal timestamps is the heap's choice
heap_peek(heap) ==
  {e \in heap : \A o \in heap : e.timestamp <= o.timestamp}

\* the mutant of evictable: the deadline is not looked at
evictable_at_once(w, entry) == TRUE

\* current_time.duration_since(entry.received) >= buffer_duration
evictable(w, entry) == entry.held >= buffer_duration(w)

\* the time d passes for every entry of the heap
age(w, d) ==
  {[e EXCEPT !.held = Min2(e.held + d, buffer_duration(w))] : e \in w.heap}

\* the mutant of receive_eof: what has passed the deadline is sent before Eof
receive_eof_flushing(w) ==
  LET due == {e \in w.heap : evictable(w, e)}
      one == IF due = {} THEN << >>
             ELSE <<LogEntry_message((CHOOSE e \in due : TRUE).entry)>>
  IN [w EXCEPT !.tx = (@ \o one) \o <<LogEntry_eof>>, !.pc = "done",
               !.dropped = w.heap, !.heap = {}]

\* the Eof branch of the drain: send Eof, break 'outer; the heap is dropped
receive_eof(w) ==
  [w EXCEPT !.tx = Append(@, LogEntry_eof), !.pc = "done",
            !.dropped = w.heap, !.heap = {}]

\* the body of the drain loop for one LogEntry of rx
drain_entry(w, unbuffered_entry, utc_now) ==
  IF unbuffered_entry.message # None
    THEN LET message == unbuffered_entry.message[1]
         IN IF message.kind = "internal"
              THEN [w EXCEPT !.tx = Append(@, LogEntry_message(message))]
              ELSE [w EXCEPT !.heap = @ \cup {TimestampedEntry_new(message, utc_now)}]
  ELSE IF unbuffered_entry.eof # None
    THEN receive_eof(w)
  ELSE w

\* the body of the eviction loop for the entry that heap.peek() returned
evict_entry(w, entry) ==
  [w EXCEPT !.heap = @ \ {entry},
            !.tx = Append(@, LogEntry_message(entry.entry))]

(***************************************************************************)
(* SpecOrdered: the reorder worker and the reader it wraps                 *)
(***************************************************************************)
\* the parts SpecOrdered leaves alone
ordered_others == <<rs, lp, rd, mn, cr>>

\* the wrapped reader sends a message or Eof into rx
ReaderSend ==
  \E e \in {LogEntry_message(m) : m \in OrderedMsgs(ro.sent + 1)} \cup {LogEntry_eof} :
    /\ ro.pc \notin {"idle", "done"}
    /\ ro.sent < MaxSent
    /\ ro' = [ro EXCEPT !.rx = Append(@, e), !.sent = @ + 1]
    /\ UNCHANGED ordered_others

\* the note sent before the loop
OrderedStart ==
  /\ ro.pc = "start"
  /\ ro' = [ro EXCEPT !.tx = Append(@, LogEntry_internal), !.pc = "sleep"]
  /\ UNCHANGED ordered_others

\* thread::sleep(100 ms)
OrderedSleep ==
  \E k \in 1..MaxSleepFactor :
    /\ ro.pc = "sleep"
    /\ ro' = [ro EXCEPT !.heap = age(ro, k * SleepMs), !.pc = "drain"]
    /\ UNCHANGED ordered_others

\* one turn of "for unbuffered_entry in rx.try_iter()"
OrderedDrain ==
  \E utc_now \in Timestamps :
    /\ ro.pc = "drain"
    /\ ro.rx # << >>
    /\ ro' = drain_entry([ro EXCEPT !.rx = Tail(@)], Head(ro.rx), utc_now)
    /\ UNCHANGED ordered_others

\* try_iter finds rx empty
OrderedDrainEnd ==
  /\ ro.pc = "drain"
  /\ ro.rx = << >>
  /\ ro' = [ro EXCEPT !.pc = "evict"]
  /\ UNCHANGED ordered_others

\* one turn of "while let Some(entry) = heap.peek()" that pops
OrderedEvict ==
  \E entry \in heap_peek(ro.heap) :
    /\ ro.pc = "evict"
    /\ evictable(ro, entry)
    /\ ro' = evict_entry(ro, entry)
    /\ UNCHANGED ordered_others

\* the eviction loop ends: the heap is empty or its top is short of the deadline
OrderedEvictEnd ==
  /\ ro.pc = "evict"
  /\ \/ ro.heap = {}
     \/ \E entry \in heap_peek(ro.heap) : ~evictable(ro, entry)
  /\ ro' = [ro EXCEPT !.pc = "sleep"]
  /\ UNCHANGED ordered_others

InitOrdered ==
  /\ cr = CommonIdle
  /\ rs = RenderState_new
  /\ lp = LoopIdle
  /\ rd = ReaderIdle
  /\ mn = MainIdle
  /\ \E b \in BufferChoices :
       ro = [pc |-> "start", buffer_ms |-> b, rx |-> << >>, heap |-> {},
             tx |-> << >>, sent |-> 0, dropped |-> {}]

NextOrdered ==
  \/ ReaderSend \/ OrderedStart \/ OrderedSleep
  \/ OrderedDrain \/ OrderedDrainEnd
  \/ OrderedEvict \/ OrderedEvictEnd

SpecOrdered == InitOrdered /\ [][NextOrdered]_vars

\* the non-internal messages sent downstream, in the order of sending
emitted(w) ==
  SelectSeq(w.tx, LAMBDA e : e.message # None /\ e.message[1].kind # "internal")

\* the step pops entry from the heap and sends it downstream
Emits(entry) ==
  /\ entry \in ro.heap
  /\ ro'.heap = ro.heap \ {entry}
  /\ ro'.tx = Append(ro.tx, LogEntry_message(entry.entry))

\* C4 as stated: of any two non-internal messages sent downstream, both
\* carrying their own timestamp, the one sent first has the smaller (or the
\* same) timestamp_millis, whatever their order of arrival.
C4_EmittedInTimestampOrder ==
  LET out == emitted(ro)
  IN \A i, j \in 1..Len(out) :
       (/\ i < j
        /\ out[i].message[1].timestamp # None
        /\ out[j].message[1].timestamp # None)
       => out[i].message[1].timestamp[1] <= out[j].message[1].timestamp[1]

\* C4, amended: a message is sent downstream only when no message left in
\* the heap has a smaller timestamp_millis, so two messages that are in the
\* heap together leave it in ascending order of timestamp.
C4_EmittedLeastOfHeap ==
  [][\A entry \in ro.heap :
       Emits(entry) => \A o \in ro'.heap : entry.timestamp <= o.timestamp]_vars

\* C4's case: a message that arrived later, with the smaller timestamp, was
\* sent downstream before one that arrived earlier
C4_Witness ==
  LET out == emitted(ro)
  IN \E i, j \in 1..Len(out) :
       /\ i < j
       /\ out[i].message[1].id > out[j].message[1].id
       /\ out[i].message[1].timestamp # None
       /\ out[j].message[1].timestamp # None
       /\ out[i].message[1].timestamp[1] < out[j].message[1].timestamp[1]

\* C5: a non-internal message is sent downstream only when the monotonic
\* time since it was received is at least the buffer duration, which is
\* config.buffer_ms or, without it, 1000 ms.
C5_HeldBeforeEmitted ==
  [][\A entry \in ro.heap :
       Emits(entry) =>
         entry.held >= (IF ro.buffer_ms = None THEN 1000 ELSE ro.buffer_ms[1])]_vars

\* C5's case: under the default buffer a message has been sent downstream
\* while another, received later, is still held short of the deadline
C5_Witness ==
  /\ ro.pc # "idle"
  /\ ro.buffer_ms = None
  /\ Len(emitted(ro)) > 0
  /\ \E e \in ro.heap : e.held > 0 /\ e.held < DEFAULT_BUFFER_MS

\* C6: the step that takes Eof from rx sends Eof downstream and ends the
\* thread; Eof is the last LogEntry sent downstream, and no message that was
\* in the heap at that time is ever sent.
C6_EofForwardedHeapDiscarded ==
  /\ [](\A i \in 1..Len(ro.tx) :
          ro.tx[i] = LogEntry_eof =>
            /\ i = Len(ro.tx)
            /\ ro.pc = "done"
            /\ \A d \in ro.dropped :
                 \A k \in 1..Len(ro.tx) : ro.tx[k] # LogEntry_message(d.entry))
  /\ [][(/\ ro.rx # << >>
          /\ Head(ro.rx) = LogEntry_eof
          /\ Len(ro'.rx) < Len(ro.rx))
         => (ro'.tx = Append(ro.tx, LogEntry_eof) /\ ro'.pc = "done")]_vars

\* C6's case: the thread has ended on Eof with a message in the heap that
\* had passed the deadline
C6_Witness ==
  /\ ro.pc = "done"
  /\ Last(ro.tx) = LogEntry_eof
  /\ \E d \in ro.dropped : d.held >= buffer_duration(ro)

(***************************************************************************)
(* src/main.rs: main after the threads are started.  mn is                 *)
(*   pc        where main is: join, send, recv, exited                     *)
(*   renderer  the renderer thread: running or exited                      *)
(*   reader    the reader: its kind and where its thread is                *)
(*   exit_req  the () waiting in the exit request channel                  *)
(*   exit_resp the () waiting in the exit response channel                 *)
(*   req_rx, resp_tx  whether the reader's ends of the channels still exist*)
(*   requests  how many requests main has sent                             *)
(*   waited    the ms main has spent in recv_timeout                       *)
(* read_stdin and read_stdin_hack take their ends as _exit_req_rx and      *)
(* _exit_resp_tx and drop them on return; read_kubernetes_selector moves   *)
(* them into its thread.                                                   *)
(***************************************************************************)
\* SpecMain: the clock readings told apart within the timeout
MainWaitSteps == 10

\* the timeout of exit_resp_rx.recv_timeout, in ms
MainTimeoutMs == 1000

ReaderKinds == {"stdin", "kubernetes"}

\* the state of main and the reader once reader_impl has returned
main_started(kind) ==
  [pc |-> "join", renderer |-> "running",
   reader |-> [kind |-> kind, pc |-> IF kind = "stdin" THEN "reading" ELSE "setup"],
   exit_req |-> 0, exit_resp |-> 0,
   req_rx |-> (kind = "kubernetes"), resp_tx |-> (kind = "kubernetes"),
   requests |-> 0, waited |-> 0]

\* exit_req_tx.send(()).ok(): the send fails when the receiver is gone
exit_req_send(m) ==
  [m EXCEPT !.exit_req = IF m.req_rx THEN @ + 1 ELSE @,
            !.requests = @ + 1,
            !.pc = "recv", !.waited = 0]

\* the mutant of recv_timeout_returns: recv() in place of recv_timeout()
recv_returns(m) == m.exit_resp > 0 \/ ~m.resp_tx

\* recv_timeout returns: a response, a disconnected channel, or the timeout
recv_timeout_returns(m) ==
  m.exit_resp > 0 \/ ~m.resp_tx \/ m.waited >= MainTimeoutMs

\* the reader thread ends: its ends of the channels are dropped
reader_ended(m) ==
  [m EXCEPT !.reader.pc = "ended", !.req_rx = FALSE, !.resp_tx = FALSE]

(***************************************************************************)
(* SpecMain: main, the renderer's exit, the reader, and the clock          *)
(***************************************************************************)
main_others == <<rs, lp, ro, rd, cr>>

\* the user quits: the renderer thread returns
RendererExit ==
  /\ mn.pc # "idle"
  /\ mn.renderer = "running"
  /\ mn' = [mn EXCEPT !.renderer = "exited"]
  /\ UNCHANGED main_others

\* renderer.join() returns
MainJoin ==
  /\ mn.pc = "join"
  /\ mn.renderer = "exited"
  /\ mn' = [mn EXCEPT !.pc = "send"]
  /\ UNCHANGED main_others

MainSend ==
  /\ mn.pc = "send"
  /\ mn' = exit_req_send(mn)
  /\ UNCHANGED main_others

\* the clock moves on while main waits in recv_timeout
MainTick ==
  /\ mn.pc = "recv"
  /\ mn.waited < MainTimeoutMs
  /\ mn' = [mn EXCEPT !.waited =
              Min2(@ + MainTimeoutMs \div MainWaitSteps, MainTimeoutMs)]
  /\ UNCHANGED main_others

\* recv_timeout(..).ok() returns and main returns Ok(())
MainRecv ==
  /\ mn.pc = "recv"
  /\ recv_timeout_returns(mn)
  /\ mn' = [mn EXCEPT !.pc = "exited", !.exit_resp = Max2(@ - 1, 0)]
  /\ UNCHANGED main_others

\* read_stdin: the thread reaches the end of input, or fails, and ends
StdinEnd ==
  /\ mn.pc # "idle"
  /\ mn.reader = [kind |-> "stdin", pc |-> "reading"]
  /\ mn' = reader_ended(mn)
  /\ UNCHANGED main_others

\* read_kubernetes_selector: spawn_kubectl and list_namespaces succeed
KubeSetupOk ==
  /\ mn.pc # "idle"
  /\ mn.reader = [kind |-> "kubernetes", pc |-> "setup"]
  /\ mn' = [mn EXCEPT !.reader.pc = "loop"]
  /\ UNCHANGED main_others

\* read_kubernetes_selector: spawn_kubectl(..)? or list_namespaces(..)? fails
KubeSetupFail ==
  /\ mn.pc # "idle"
  /\ mn.reader = [kind |-> "kubernetes", pc |-> "setup"]
  /\ mn' = reader_ended(mn)
  /\ UNCHANGED main_others

\* read_kubernetes_selector: exit_req_rx.try_recv() finds the request
KubePoll ==
  /\ mn.pc # "idle"
  /\ mn.reader = [kind |-> "kubernetes", pc |-> "loop"]
  /\ mn.exit_req > 0
  /\ mn' = [mn EXCEPT !.exit_req = @ - 1, !.reader.pc = "cleanup"]
  /\ UNCHANGED main_others

\* read_kubernetes_selector: kubectl has ended; exit_resp_tx.send(()).ok()
KubeRespond ==
  /\ mn.pc # "idle"
  /\ mn.reader = [kind |-> "kubernetes", pc |-> "cleanup"]
  /\ mn' = reader_ended([mn EXCEPT !.exit_resp = @ + 1])
  /\ UNCHANGED main_others

InitMain ==
  /\ cr = CommonIdle
  /\ rs = RenderState_new
  /\ lp = LoopIdle
  /\ ro = OrderedIdle
  /\ rd = ReaderIdle
  /\ \E kind \in ReaderKinds : mn = main_started(kind)

NextMain ==
  \/ RendererExit \/ MainJoin \/ MainSend \/ MainTick \/ MainRecv
  \/ StdinEnd \/ KubeSetupOk \/ KubeSetupFail \/ KubePoll \/ KubeRespond

\* main runs whenever it can and the clock moves on; the reader's steps and
\* the user's quit may never happen
SpecMain ==
  /\ InitMain
  /\ [][NextMain]_vars
  /\ WF_vars(MainJoin) /\ WF_vars(MainSend) /\ WF_vars(MainTick) /\ WF_vars(MainRecv)

\* C7: main sends at most one shutdown request, and exactly one before it
\* returns; it never spends more than 1000 ms in the wait for the response;
\* and once the renderer thread has exited main does return, whatever the
\* reader does.
C7_MainReturnsWithinTimeout ==
  /\ [](/\ mn.requests <= 1
        /\ mn.waited <= 1000
        /\ (mn.pc = "exited" => mn.requests = 1))
  /\ ((mn.renderer = "exited") ~> (mn.pc = "exited"))

\* C7's case: main has returned after the whole timeout, with no response,
\* while the reader thread still holds its end of the response channel
C7_Witness ==
  /\ mn.pc = "exited"
  /\ mn.waited = MainTimeoutMs
  /\ mn.resp_tx
  /\ mn.exit_resp = 0
  /\ mn.reader.pc \in {"setup", "loop", "cleanup"}

(***************************************************************************)
(* src/parser/mod.rs, src/reader/stdin.rs, src/reader/stdin_hack.rs and    *)
(* the start of read_kubernetes_selector.  rd is the reader thread:        *)
(*   kind     which reader                                                 *)
(*   pc       where the thread is; ended once its closure has returned     *)
(*   result   the closure's SimpleResult once it has returned              *)
(*   lines    how many lines the input has yielded                         *)
(*   empty    the local of that name                                       *)
(*   tx       every LogEntry the reader has sent, oldest first             *)
(*   rx_alive whether the receiving end of tx still exists                 *)
(*   last     the last line parsed: what each parser made of it and what   *)
(*            parse returned                                               *)
(***************************************************************************)
\* SpecReader: the most lines the input yields
MaxLines == 2

\* PARSERS, in order
PARSERS == <<"json", "logrus", "klog", "regex", "plain">>

\* what a parser returns for a line: Ok(None), Ok(Some(message)) or Err(e)
ParserResults == {"none", "some", "err"}

\* what the parsers return for a line, one result each in the order of
\* PARSERS; parse_plain returns Ok(Some(message)) for every line
LineResults ==
  {r \in [1..Len(PARSERS) -> ParserResults] : r[Len(PARSERS)] = "some"}

\* parse: "for parser_fn in PARSERS", from parser i on;
\* Ok(None) => continue, _ => return result
RECURSIVE parse(_, _)
parse(results, i) ==
  IF i > Len(PARSERS) THEN [result |-> "none", parser |-> None]
  ELSE IF results[i] = "none" THEN parse(results, i + 1)
  ELSE [result |-> results[i], parser |-> Some(PARSERS[i])]

\* LogEntry::message: parse(..)? and the wrapping of Some(message)
LogEntry_from_line(results, line) ==
  LET parsed == parse(results, 1)
  IN IF parsed.result = "some"
       THEN [result |-> "some",
             entry |-> Some(LogEntry_message([kind |-> parsed.parser[1], line |-> line]))]
       ELSE [result |-> parsed.result, entry |-> None]

\* LogEntry::internal as a reader sends it
Reader_internal == LogEntry_message([kind |-> "internal", line |-> 0])

\* the closure returns Err through "?": nothing more is sent
reader_fails(r) == [r EXCEPT !.pc = "ended", !.result = Some("err")]

\* the body of "for line in ..lines()" for a line that was read
reader_line(r, results) ==
  LET n == r.lines + 1
      got == LogEntry_from_line(results, n)
      r1 == [r EXCEPT !.lines = n, !.empty = FALSE,
                      !.last = Some([results |-> results, result |-> got.result])]
  IN IF got.result = "some"
       THEN IF r.rx_alive
              THEN [r1 EXCEPT !.tx = Append(@, got.entry[1])]
              ELSE [r1 EXCEPT !.pc = "finish"]
       ELSE r1

\* after the loop: the warning when empty, then Eof, then Ok(())
reader_finish(r) ==
  LET warned == IF r.empty /\ r.rx_alive THEN Append(r.tx, Reader_internal) ELSE r.tx
  IN [r EXCEPT !.tx = IF r.rx_alive THEN Append(warned, LogEntry_eof) ELSE warned,
               !.pc = "ended", !.result = Some("ok")]

\* the reader thread as spawned
reader_started(kind) ==
  [kind |-> kind,
   pc |-> CASE kind = "stdin" -> "read"
            [] kind = "stdin_hack" -> "open"
            [] kind = "kubernetes" -> "spawn_kubectl",
   result |-> None, lines |-> 0, empty |-> TRUE, tx |-> << >>,
   rx_alive |-> TRUE, last |-> None]

(***************************************************************************)
(* SpecReader: a reader thread, its input, and the far end of its channel  *)
(***************************************************************************)
reader_others == <<rs, lp, ro, mn, cr>>

\* read_stdin_hack: File::open("/dev/stdin") succeeds or fails
ReaderOpen ==
  \E opened \in BOOLEAN :
    /\ rd.pc = "open"
    /\ rd' = IF opened THEN [rd EXCEPT !.pc = "read"] ELSE reader_fails(rd)
    /\ UNCHANGED reader_others

\* lines() yields a line, which the parsers take in some way
ReaderLine ==
  \E results \in LineResults :
    /\ rd.pc = "read"
    /\ rd.lines < MaxLines
    /\ rd' = reader_line(rd, results)
    /\ UNCHANGED reader_others

\* lines() yields Err: the read failed, or the line is not UTF-8
ReaderLineError ==
  /\ rd.pc = "read"
  /\ rd' = reader_fails(rd)
  /\ UNCHANGED reader_others

\* lines() ends: the input is at its end
ReaderInputEnd ==
  /\ rd.pc = "read"
  /\ rd' = [rd EXCEPT !.pc = "finish"]
  /\ UNCHANGED reader_others

ReaderFinish ==
  /\ rd.pc = "finish"
  /\ rd' = reader_finish(rd)
  /\ UNCHANGED reader_others

\* read_kubernetes_selector: spawn_kubectl(..)? and the note that follows
KubeSpawn ==
  \E spawned \in BOOLEAN :
    /\ rd.pc = "spawn_kubectl"
    /\ rd' = IF spawned
               THEN [rd EXCEPT !.pc = "list_namespaces",
                               !.tx = IF rd.rx_alive THEN Append(@, Reader_internal) ELSE @]
               ELSE reader_fails(rd)
    /\ UNCHANGED reader_others

\* read_kubernetes_selector: list_namespaces(..)?; the loop that follows is
\* left at its start
KubeList ==
  \E listed \in BOOLEAN :
    /\ rd.pc = "list_namespaces"
    /\ rd' = IF listed THEN [rd EXCEPT !.pc = "loop"] ELSE reader_fails(rd)
    /\ UNCHANGED reader_others

\* the renderer thread ends and drops the receiving end
ReceiverDropped ==
  /\ rd.pc # "idle"
  /\ rd.rx_alive
  /\ rd' = [rd EXCEPT !.rx_alive = FALSE]
  /\ UNCHANGED reader_others

InitReader ==
  /\ cr = CommonIdle
  /\ rs = RenderState_new
  /\ lp = LoopIdle
  /\ ro = OrderedIdle
  /\ mn = MainIdle
  /\ \E kind \in {"stdin", "stdin_hack", "kubernetes"} : rd = reader_started(kind)

NextReader ==
  \/ ReaderOpen \/ ReaderLine \/ ReaderLineError \/ ReaderInputEnd \/ ReaderFinish
  \/ KubeSpawn \/ KubeList \/ ReceiverDropped

SpecReader == InitReader /\ [][NextReader]_vars

\* C8 as stated: a reader thread that has ended on a failure has sent at
\* least one internal message and, after it, Eof as its last LogEntry
\* (as long as the renderer still holds the receiving end).
C8_FailureSendsInternalThenEof ==
  (rd.pc = "ended" /\ rd.result = Some("err") /\ rd.rx_alive)
  => /\ rd.tx # << >>
     /\ Last(rd.tx) = LogEntry_eof
     /\ \E k \in 1..Len(rd.tx) : rd.tx[k] = Reader_internal

LoopMaxSends == 2
LoopMaxKeys == 1
LoopMaxResizes == 1

REFRESH_INTERVAL == 500
\* sleep_duration_seconds, in ms
FrameMs == 250

LoopKeys == {"Up", "Down", "p", "x", "Ctrl-q"}
LoopSizes == [width : Widths, height : {3}]

\* the mutant of loop_drain_entry: the message is put before the entries
loop_drain_entry_front(state, entry) ==
  LET s1 == IF entry.message # None
              THEN [add_entry(state, entry.message[1]) EXCEPT
                      !.entries = <<entry.message[1]>> \o state.entries]
              ELSE state
  IN IF entry.eof # None THEN set_eof(s1, TRUE) ELSE s1

\* the body of "for entry in rx.try_iter()"
loop_drain_entry(state, entry) ==
  LET s1 == IF entry.message # None THEN add_entry(state, entry.message[1]) ELSE state
  IN IF entry.eof # None THEN set_eof(s1, TRUE) ELSE s1

\* the mutant of force_refresh: a refresh whenever REFRESH_INTERVAL has
\* elapsed, resized or not
force_refresh_periodic(l, resized) ==
  IF l.last_render # None
    THEN l.last_render[1] >= REFRESH_INTERVAL
    ELSE TRUE

\* force_refresh
force_refresh(l, resized) ==
  IF l.last_render # None
    THEN resized /\ l.last_render[1] >= REFRESH_INTERVAL
    ELSE TRUE

\* thread::sleep(sleep_duration_seconds) as last_render.elapsed() sees it
loop_sleep(l) ==
  [l EXCEPT !.pc = "drain", !.dirty = FALSE,
            !.last_render = IF @ = None THEN None
                            ELSE Some(Min2(@[1] + FrameMs, REFRESH_INTERVAL))]

\* the loop as the thread enters it, in a terminal of the given size
loop_started(size) ==
  [pc |-> "drain", dirty |-> FALSE, last_render |-> None,
   last_width |-> 0, last_height |-> 0,
   rx |-> << >>, keys |-> << >>, term |-> size, drawn |-> None,
   produced |-> << >>, sends |-> 0, presses |-> 0, resizes |-> 0]

(***************************************************************************)
(* SpecLoop: the loop, the reader, the user and the terminal               *)
(***************************************************************************)
loop_others == <<ro, rd, mn, cr>>

loop_running == lp.pc \in {"drain", "keys", "poll", "sleep"}

\* the reader sends a message or Eof
LoopReaderSend ==
  \E e \in {LogEntry_message(m) : m \in SpecMsgs} \cup {LogEntry_eof} :
    /\ loop_running
    /\ lp.sends < LoopMaxSends
    /\ lp' = [lp EXCEPT !.rx = Append(@, e), !.sends = @ + 1,
                        !.produced = IF e.message # None THEN Append(@, e.message[1]) ELSE @]
    /\ UNCHANGED <<rs, ro, rd, mn, cr>>

\* the user presses a key
UserKey ==
  \E key \in LoopKeys :
    /\ loop_running
    /\ lp.presses < LoopMaxKeys
    /\ lp' = [lp EXCEPT !.keys = Append(@, key), !.presses = @ + 1]
    /\ UNCHANGED <<rs, ro, rd, mn, cr>>

\* the terminal is resized
TerminalResize ==
  \E size \in LoopSizes \ {lp.term} :
    /\ loop_running
    /\ lp.resizes < LoopMaxResizes
    /\ lp' = [lp EXCEPT !.term = size, !.resizes = @ + 1]
    /\ UNCHANGED <<rs, ro, rd, mn, cr>>

\* one turn of "for entry in rx.try_iter()"
LoopDrain ==
  /\ lp.pc = "drain"
  /\ lp.rx # << >>
  /\ rs' = loop_drain_entry(rs, Head(lp.rx))
  /\ lp' = [lp EXCEPT !.rx = Tail(@), !.dirty = TRUE]
  /\ UNCHANGED loop_others

\* try_iter finds rx empty
LoopDrainEnd ==
  /\ lp.pc = "drain"
  /\ lp.rx = << >>
  /\ lp' = [lp EXCEPT !.pc = "keys"]
  /\ UNCHANGED <<rs, ro, rd, mn, cr>>

\* one turn of "while let Some(event) = stdin.next()"
LoopKey ==
  /\ lp.pc = "keys"
  /\ lp.keys # << >>
  /\ LET r == bar_input(rs, Head(lp.keys))
     IN /\ rs' = r.state
        /\ lp' = [lp EXCEPT !.keys = Tail(@),
                            !.dirty = @ \/ (r.action = "Rerender"),
                            !.pc = IF r.state.panicked THEN "panicked"
                                   ELSE IF r.action = "Exit" THEN "exited"
                                   ELSE @]
  /\ UNCHANGED loop_others

\* stdin.next() finds no event
LoopKeysEnd ==
  /\ lp.pc = "keys"
  /\ lp.keys = << >>
  /\ lp' = [lp EXCEPT !.pc = "poll"]
  /\ UNCHANGED <<rs, ro, rd, mn, cr>>

\* terminal_size(), resized, force_refresh, and the render if there is one
LoopPollRender ==
  /\ lp.pc = "poll"
  /\ LET width == lp.term.width
         height == lp.term.height
         resized == width # lp.last_width \/ height # lp.last_height
         sized == IF resized THEN [rs EXCEPT !.width = width, !.height = height] ELSE rs
         draws == lp.dirty \/ force_refresh(lp, resized)
         drawn == IF draws THEN render(sized) ELSE sized
     IN /\ rs' = drawn
        /\ lp' = [lp EXCEPT !.last_width = width, !.last_height = height,
                            !.last_render = IF draws THEN Some(0) ELSE @,
                            !.drawn = IF draws /\ ~drawn.panicked
                                        THEN Some([width |-> sized.width,
                                                   height |-> sized.height])
                                        ELSE @,
                            !.pc = IF drawn.panicked THEN "panicked" ELSE "sleep"]
  /\ UNCHANGED loop_others

LoopSleep ==
  /\ lp.pc = "sleep"
  /\ lp' = loop_sleep(lp)
  /\ UNCHANGED <<rs, ro, rd, mn, cr>>

InitLoop ==
  /\ cr = CommonIdle
  /\ rs = RenderState_new
  /\ ro = OrderedIdle
  /\ rd = ReaderIdle
  /\ mn = MainIdle
  /\ \E size \in LoopSizes : lp = loop_started(size)

NextLoop ==
  \/ LoopReaderSend \/ UserKey \/ TerminalResize
  \/ LoopDrain \/ LoopDrainEnd \/ LoopKey \/ LoopKeysEnd
  \/ LoopPollRender \/ LoopSleep

\* the renderer thread runs whenever it can; the reader, the user and the
\* terminal may never act
SpecLoop ==
  /\ InitLoop
  /\ [][NextLoop]_vars
  /\ WF_vars(LoopDrain) /\ WF_vars(LoopDrainEnd) /\ WF_vars(LoopKey)
  /\ WF_vars(LoopKeysEnd) /\ WF_vars(LoopPollRender) /\ WF_vars(LoopSleep)

\* the entries that came from the channel, in the order of entries
reader_entries(state) == SelectSeq(state.entries, LAMBDA m : m.origin = "reader")

\* the messages still in the channel, oldest first
rx_messages(l) ==
  LET with == SelectSeq(l.rx, LAMBDA e : e.message # None)
  IN [k \in 1..Len(with) |-> with[k].message[1]]

\* C3: the messages of entries that came from the channel, followed by the
\* messages still in the channel, are at all times exactly the messages the
\* reader has sent, in the order of sending; and every step leaves entries
\* as it was or appends to it.
C3_ChannelOrderKept ==
  /\ [](reader_entries(rs) \o rx_messages(lp) = lp.produced)
  /\ [][IsPrefix(rs.entries, rs'.entries)]_vars

\* C3's case: two different messages of the reader are in entries with a
\* message of the user interface between them
C3_Witness ==
  \E i, j, k \in 1..Len(rs.entries) :
    /\ i < j /\ j < k
    /\ rs.entries[i].origin = "reader"
    /\ rs.entries[j].origin = "ui"
    /\ rs.entries[k].origin = "reader"
    /\ rs.entries[i] # rs.entries[k]

\* the screen was drawn at a size that is not the terminal's
stale == lp.drawn # None /\ lp.drawn[1] # lp.term

\* C10 as stated: whenever the terminal's size differs from the size the
\* screen was drawn at, the loop, as long as it runs, comes to draw the
\* screen at the terminal's size, with or without a message or a key.
C10_ResizeEventuallyRedrawn ==
  [](stale => <>(~stale \/ ~loop_running))

(***************************************************************************)
(* C11: when the loop redraws                                              *)
(***************************************************************************)
\* the step is the end of an iteration's poll: terminal_size() to the render
poll_step == lp.pc = "poll" /\ lp'.pc # "poll"

\* the step rendered: last_render = Some(Instant::now())
redraws == lp'.last_render = Some(0)

\* the size terminal_size() returns is not the one of the last iteration
poll_resized == lp.term.width # lp.last_width \/ lp.term.height # lp.last_height

\* no render yet, or REFRESH_INTERVAL has elapsed since the last one
interval_elapsed == lp.last_render = None \/ lp.last_render[1] >= REFRESH_INTERVAL

BarMaxEntries == 2
BarMaxInput == 1
BarMaxFilters == 1
BarMaxKeys == 4

BarKeys ==
  {"a", "[", "f", "/", "Enter", "Esc", "Backspace", "Delete", "Left", "Right",
   "Ctrl-r", "Ctrl-e", "Ctrl-n", "Ctrl-p", "Up", "Down", "Ctrl-q"}

BarSizes == {[width |-> 2, height |-> 3]}

bar_started == [pc |-> "keys", key |-> "", presses |-> 0]

\* the state stays within the bounds
BarAllowed(new) ==
  /\ Len(new.entries) <= BarMaxEntries
  /\ Len(new.filters) <= BarMaxFilters
  /\ Len(new.filter.text.input) <= BarMaxInput
  /\ Len(new.search.text.input) <= BarMaxInput

\* a message of the reader is drained from the channel
BarAddEntry ==
  \E m \in SpecMsgs :
    /\ lp.pc = "keys" /\ ~rs.panicked
    /\ BarAllowed(add_entry(rs, m))
    /\ rs' = add_entry(rs, m)
    /\ UNCHANGED <<lp, ro, rd, mn, cr>>

\* one turn of "while let Some(event) = stdin.next()"
BarKey ==
  \E key \in BarKeys :
    LET r == bar_input(rs, key)
    IN /\ lp.pc = "keys" /\ ~rs.panicked
       /\ lp.presses < BarMaxKeys
       /\ BarAllowed(r.state)
       /\ rs' = r.state
       /\ lp' = [lp EXCEPT !.key = key, !.presses = @ + 1,
                           !.pc = IF r.action = "Exit" THEN "exited" ELSE @]
       /\ UNCHANGED <<ro, rd, mn, cr>>

\* the poll of the terminal size and the render at the end of an iteration
BarRender ==
  \E size \in BarSizes :
    /\ lp.pc = "keys" /\ ~rs.panicked
    /\ rs' = render(set_size(rs, size.width, size.height))
    /\ UNCHANGED <<lp, ro, rd, mn, cr>>

InitBar ==
  /\ cr = CommonIdle
  /\ rs = RenderState_new
  /\ lp = bar_started
  /\ ro = OrderedIdle
  /\ rd = ReaderIdle
  /\ mn = MainIdle

NextBar == BarAddEntry \/ BarKey \/ BarRender

SpecBar == InitBar /\ [][NextBar]_vars

\* the step handles the key
Handles(key) == lp'.presses = lp.presses + 1 /\ lp'.key = key

\* the text of the filter bar does not parse in its mode
filter_text_invalid(state) ==
  FilterMode_parse(state.filter.mode, state.filter.text.input, state.filter.inverted) = None

\* C12: a step that handles Enter while the filter bar is active and its text
\* does not parse as a filter in the bar's mode appends exactly one internal
\* message to entries, leaves the filters stack and the text buffer as they
\* were and leaves the filter bar active.
C12_InvalidFilterKept ==
  [][(Handles("Enter") /\ rs.bar.active = "Filter" /\ filter_text_invalid(rs)) =>
       /\ rs'.entries = Append(rs.entries, MessageEntry_internal)
       /\ rs'.filters = rs.filters
       /\ rs'.filter.text = rs.filter.text
       /\ rs'.bar.active = "Filter"]_vars

\* C12's case: Enter was handled last, the filter bar is still active with a
\* text that does not parse, and the last entry is the internal message
C12_Witness ==
  /\ lp.key = "Enter"
  /\ rs.bar.active = "Filter"
  /\ filter_text_invalid(rs)
  /\ rs.filter.text.input # << >>
  /\ rs.entries # << >>
  /\ Last(rs.entries) = MessageEntry_internal

(***************************************************************************)
(* C13: the highlight filter                                               *)
(***************************************************************************)
\* the keys that edit a text, and the keys of the mode and the inverted flag
EditKeys == (CharKeys \cap BarKeys) \cup {"Backspace", "Delete", "Ctrl-r", "Ctrl-e"}

\* the state search_bar::input hands to update_highlight on a key of EditKeys
\* that updates the text: the text, mode or flag changed, update_filter and
\* the soft next_match done
search_before_highlight(state, key) ==
  LET s0 == [state EXCEPT !.search.text = text_input(@, key).text]
      s1 == CASE key = "Ctrl-r" -> search_next_mode(s0)
              [] key = "Ctrl-e" -> search_toggle_inverted(s0)
              [] OTHER -> s0
  IN next_match(search_update_filter(s1), TRUE)

\* the two states have the same entries, filters and filtered_entries
same_rows(s, t) ==
  /\ s.entries = t.entries
  /\ s.filters = t.filters
  /\ s.filtered_entries = t.filtered_entries

\* the step handles a key of EditKeys that updates the text, mode or flag of
\* the active bar
Edits(bar) ==
  /\ rs.bar.active = bar
  /\ \E key \in EditKeys :
       /\ Handles(key)
       /\ key = "Backspace" =>
            (IF bar = "Filter" THEN rs.filter.text.input ELSE rs.search.text.input) # << >>

\* C13: filtered_entries is at all times the entries that pass the filters of
\* the stack, whatever the highlight filter is; a step that handles a text
\* edit, Ctrl-R or Ctrl-E in the filter bar leaves entries, filters and
\* filtered_entries as they were; and such a step in the search bar ends with
\* the entries, filters and filtered_entries that its soft next_match left,
\* the change of the highlight filter that follows changing none of them.
C13_HighlightLeavesRows ==
  /\ [](rs.filtered_entries = refilter(rs.entries, rs.filters, 0))
  /\ [][Edits("Filter") => same_rows(rs', rs)]_vars
  /\ [][\A key \in EditKeys :
          (Edits("Search") /\ Handles(key)) =>
             same_rows(rs', search_before_highlight(rs, key))]_vars

\* C13's case: a character typed into the filter bar or the search bar has
\* set a highlight filter that rejects an entry of filtered_entries
C13_Witness ==
  /\ lp.key \in CharKeys
  /\ rs.bar.active \in {"Filter", "Search"}
  /\ rs.highlight_filter # None
  /\ \E k \in 1..Len(rs.filtered_entries) :
       ~Filter_filter(rs.highlight_filter[1], rs.filtered_entries[k].entry)

(***************************************************************************)
(* C14, C15: next_match and prev_match                                     *)
(***************************************************************************)
\* the step is a hard next_match: Enter or Ctrl-N handled by the search bar
HardNext ==
  /\ rs.bar.active = "Search"
  /\ Handles("Enter") \/ Handles("Ctrl-n")

\* C14 as stated: a hard next_match with a search filter set and a selection
\* at index i selects the smallest index j > i whose entry matches the search
\* filter; if there is none it appends the internal message and clears the
\* selection.  It never leaves the selection at i.
C14_HardNextLeavesSelection ==
  [][(HardNext /\ rs.search.filter # None /\ rs.log.selection # None /\ ~rs'.panicked) =>
       LET i == rs.log.selection[1].rel_index
           j == first_match(rs, rs.search.filter[1], i + 1, Len(rs.filtered_entries))
       IN IF j # None
            THEN /\ rs'.log.selection # None
                 /\ rs'.log.selection[1].rel_index = j[1]
            ELSE /\ rs'.log.selection = None
                 /\ rs'.entries = Append(rs.entries, MessageEntry_internal)]_vars

\* the state the search bar calls next_match on when it handles the key, and
\* the soft flag of the call: Enter and Ctrl-N call it hard on the state as it
\* is; the keys of EditKeys call it soft after update_filter
next_match_call(state, key) ==
  IF key \in {"Enter", "Ctrl-n"}
    THEN [state |-> state, soft |-> FALSE]
    ELSE LET s0 == [state EXCEPT !.search.text = text_input(@, key).text]
             s1 == CASE key = "Ctrl-r" -> search_next_mode(s0)
                     [] key = "Ctrl-e" -> search_toggle_inverted(s0)
                     [] OTHER -> s0
         IN [state |-> search_update_filter(s1), soft |-> TRUE]

\* the search range of next_match has no entry that matches the search filter
next_range_empty(state, soft) ==
  LET max == Len(state.filtered_entries)
      sel == state.log.selection
      min == IF sel = None THEN 0
             ELSE IF ~soft /\ sel[1].rel_index + 1 < max THEN sel[1].rel_index + 1
             ELSE sel[1].rel_index
  IN \A i \in min..(max - 1) :
       ~Filter_filter(state.search.filter[1], At(state.filtered_entries, i).entry)

\* the search range of prev_match has no entry that matches the search filter
prev_range_empty(state) ==
  LET sel == state.log.selection
      max == IF sel = None THEN Len(state.filtered_entries) ELSE sel[1].rel_index
  IN \A i \in 0..(max - 1) :
       ~Filter_filter(state.search.filter[1], At(state.filtered_entries, i).entry)

\* one internal message was appended and there is no selection
no_match_reported == 
  /\ rs'.entries = Append(rs.entries, MessageEntry_internal)
  /\ rs'.log.selection = None

\* C15: a step of the search bar that calls next_match (Enter, Ctrl-N, or
\* softly after a text edit, Ctrl-R or Ctrl-E) with a search filter set whose
\* search range holds no matching filtered entry appends exactly one internal
\* message and ends with no selection; so does a step that calls prev_match
\* (Ctrl-P); with no search filter set, Enter, Ctrl-N and Ctrl-P change
\* nothing of the state.
C15_NoMatchReported ==
  /\ [][\A key \in {"Enter", "Ctrl-n"} \cup EditKeys :
          (rs.bar.active = "Search" /\ Handles(key)
             /\ (key = "Backspace" => rs.search.text.input # << >>)) =>
            LET c == next_match_call(rs, key)
            IN (c.state.search.filter # None /\ next_range_empty(c.state, c.soft))
                 => no_match_reported]_vars
  /\ [][(rs.bar.active = "Search" /\ Handles("Ctrl-p")
           /\ rs.search.filter # None /\ prev_range_empty(rs)) => no_match_reported]_vars
  /\ [][(rs.bar.active = "Search" /\ rs.search.filter = None
           /\ (Handles("Enter") \/ Handles("Ctrl-n") \/ Handles("Ctrl-p"))) => rs' = rs]_vars

\* C15's case: Ctrl-P was handled with a search filter set that an entry
\* matches, and it found no match before the selection: the internal message
\* is the last entry and nothing is selected
C15_Witness ==
  /\ lp.key = "Ctrl-p"
  /\ rs.bar.active = "Search"
  /\ rs.search.filter # None
  /\ rs.log.selection = None
  /\ Len(rs.entries) = 2
  /\ Filter_filter(rs.search.filter[1], rs.entries[1])
  /\ rs.entries[2] = MessageEntry_internal

(***************************************************************************)
(* C16: the index move_selection selects, in the states of Spec            *)
(***************************************************************************)
\* the amounts of a move: up to one more than the entries there can be
MoveAmounts == ((0 - (MaxEntries + 1))..(MaxEntries + 1)) \ {0}

height_changed(state) ==
  /\ ~state.panicked
  /\ state.log.selection # None
  /\ state.log.selection[1].rel_index < Len(state.filtered_entries)
  /\ state.log.selection[1].anchor.height # None
  /\ state.log.selection[1].anchor.height[1]
       # entry_lines(state, state.log.selection[1].rel_index)

\* the entry, moved so that its bottom row stays, is within the log area:
\* rows 0 to height - 2
still_fits(state) ==
  LET sel == state.log.selection[1]
      end_y == state.height - 1
      top == end_y - sel.anchor.offset + sel.anchor.height[1]
               - entry_lines(state, sel.rel_index)
  IN /\ state.height >= 2
     /\ sel.anchor.offset <= end_y
     /\ top >= 0
     /\ top + entry_lines(state, sel.rel_index) <= end_y

\* the rows between the entry's bottom row and the last row of the screen,
\* as the anchor records them
rows_below(sel) == sel.anchor.offset - sel.anchor.height[1]

\* what C17 says of a render pass from the state pre
anchor_kept(pre) ==
  LET post == render(pre)
      new_height == entry_lines(pre, pre.log.selection[1].rel_index)
  IN /\ post.log.selection # None
     /\ post.log.selection[1].anchor.height = Some(new_height)
     /\ still_fits(pre) =>
          /\ rows_below(post.log.selection[1]) = rows_below(pre.log.selection[1])
          /\ post.log.selection[1].anchor.offset
               = pre.log.selection[1].anchor.offset
                   - (pre.log.selection[1].anchor.height[1] - new_height)

\* C17 as stated: a render pass with a selection whose anchor records a
\* height other than the number of lines its entry now renders to records
\* the new height in the anchor, and, whenever the entry still fits on the
\* screen, leaves its bottom row where it was, the top row moving by the
\* difference of the heights.
C17_AnchorKeptInEveryPass ==
  \A w \in Widths, h \in Heights :
    LET pre == set_size(rs, w, h)
    IN height_changed(pre) => anchor_kept(pre)

\* C17, amended: the same of a render pass on a terminal of at least 2 rows;
\* on a terminal of fewer rows the pass draws no entry and leaves the anchor
\* as it was.
C17_AnchorKeptWhereDrawn ==
  \A w \in Widths, h \in Heights :
    LET pre == set_size(rs, w, h)
    IN /\ (height_changed(pre) /\ pre.height >= 2) => anchor_kept(pre)
       /\ (height_changed(pre) /\ pre.height < 2) =>
            render(pre).log.selection = pre.log.selection

\* C17's case: a selection with a recorded height, and a terminal size at
\* which its entry renders to another height and still fits, so that the
\* render pass moves the top row and keeps the bottom row
C17_Witness ==
  \E w \in Widths, h \in Heights :
    LET pre == set_size(rs, w, h)
    IN /\ height_changed(pre)
       /\ still_fits(pre)
       /\ Len(pre.filtered_entries) >= 2
       /\ render(pre).log.selection[1].anchor.offset # pre.log.selection[1].anchor.offset
       /\ rows_below(render(pre).log.selection[1]) = rows_below(pre.log.selection[1])

(***************************************************************************)
(* Merging, measuring and wrapping of rendered chunks                      *)
(* (src/renderer/common.rs): a caller collects a sequence of rendered      *)
(* chunks and then either merges and measures it, or wraps it to a width.  *)
(***************************************************************************)
\* the longest chunk sequence handed to merge_chunks and wrap_chunks
MaxChunks == 3

\* the widest rendered chunk
MaxChunkWidth == 2

\* the widest line asked of wrap_chunks
MaxWrapWidth == 3

\* the rendered chunks a caller hands over: every width and padding, and for
\* one padded chunk every combination of break_after and force_break_after
RenderedChunks ==
  {RenderedChunk(text_of("x", w), l, r, FALSE, FALSE) :
     w \in 0..MaxChunkWidth, l \in BOOLEAN, r \in BOOLEAN}
  \cup {RenderedChunk(text_of("x", 1), TRUE, TRUE, b, f) : b \in BOOLEAN, f \in BOOLEAN}

\* the widths handed to wrap_chunks
WrapWidths == 1..MaxWrapWidth

\* the caller before any call
chunks_started ==
  [pc |-> "chunks", chunks |-> << >>, max_width |-> 0,
   merged |-> RenderedChunk(<< >>, FALSE, FALSE, FALSE, FALSE), measured |-> 0,
   lines |-> << >>]

\* the caller collects one more rendered chunk
ChunkPush ==
  /\ cr.pc = "chunks"
  /\ Len(cr.chunks) < MaxChunks
  /\ \E chunk \in RenderedChunks : cr' = [cr EXCEPT !.chunks = Append(@, chunk)]
  /\ UNCHANGED <<rs, lp, ro, rd, mn>>

\* the caller calls merge_chunks and measure_chunks on what it collected
ChunksMerge ==
  /\ cr.pc = "chunks"
  /\ cr' = [cr EXCEPT !.pc = "merged",
                      !.merged = merge_chunks(cr.chunks),
                      !.measured = measure_chunks(cr.chunks)]
  /\ UNCHANGED <<rs, lp, ro, rd, mn>>

\* the caller calls wrap_chunks on what it collected
ChunksWrap ==
  /\ cr.pc = "chunks"
  /\ \E max_width \in WrapWidths :
       cr' = [cr EXCEPT !.pc = "wrapped", !.max_width = max_width,
                        !.lines = wrap_chunks(cr.chunks, max_width)]
  /\ UNCHANGED <<rs, lp, ro, rd, mn>>

InitChunks ==
  /\ cr = chunks_started
  /\ rs = RenderState_new
  /\ lp = LoopIdle
  /\ ro = OrderedIdle
  /\ rd = ReaderIdle
  /\ mn = MainIdle

NextChunks == ChunkPush \/ ChunksMerge \/ ChunksWrap

SpecChunks == InitChunks /\ [][NextChunks]_vars

\* the chunks of non-zero width, in order
non_empty(chunks) == SelectSeq(chunks, LAMBDA chunk : chunk.width > 0)

\* the sum of the widths of the chunks
RECURSIVE sum_widths(_)
sum_widths(chunks) ==
  IF chunks = << >> THEN 0 ELSE Head(chunks).width + sum_widths(Tail(chunks))

\* a space belongs between chunk k and chunk k + 1 of the sequence
padded_between(chunks, k) == chunks[k].pad_right \/ chunks[k + 1].pad_left

\* the width the padding rule gives: the widths, and one column for each
\* pair of consecutive non-empty chunks with padding between them
padded_sum(chunks) ==
  sum_widths(chunks)
    + Cardinality({k \in 1..(Len(non_empty(chunks)) - 1) :
                     padded_between(non_empty(chunks), k)})

\* the content the padding rule gives for non-empty chunks
RECURSIVE padded_join(_)
padded_join(chunks) ==
  IF chunks = << >> THEN << >>
  ELSE IF Len(chunks) = 1 THEN chunks[1].content
  ELSE chunks[1].content \o (IF padded_between(chunks, 1) THEN <<" ">> ELSE << >>)
         \o padded_join(Tail(chunks))

\* C20: for every sequence of rendered chunks, zero-width chunks included,
\* merge_chunks(xs).width equals measure_chunks(xs), both equal the sum of the
\* widths plus one for each pair of consecutive non-empty chunks where the
\* left has pad_right or the right has pad_left, and the merged content has
\* a space in no other place.
C20_MergeWidthIsMeasure ==
  cr.pc = "merged" =>
    /\ cr.merged.width = cr.measured
    /\ cr.measured = padded_sum(cr.chunks)
    /\ cr.merged.content = padded_join(non_empty(cr.chunks))

\* C18: every line of wrap_chunks(xs, W), merged by merge_chunks, is at most
\* W wide, unless the line holds a chunk that is itself wider than W.
C18_WrappedLinesFit ==
  cr.pc = "wrapped" =>
    \A n \in 1..Len(cr.lines) :
      \/ merge_chunks(cr.lines[n]).width <= cr.max_width
      \/ \E k \in 1..Len(cr.lines[n]) : cr.lines[n][k].width > cr.max_width

(***************************************************************************)
(* Rendering of one entry by styled_render (src/renderer/common.rs): a     *)
(* classifier chain builds the chunks of the entry, and a renderer calls   *)
(* styled_render with or without a wrap width.                             *)
(***************************************************************************)
\* the most chunks of an entry
MaxEntryChunks == 3

\* the widest value of a left or right chunk
MaxSlotWidth == 2

\* the widest narrow terminal
MaxRenderWidth == 6

\* a terminal wide enough to keep chunks of every weight
WideTerminal == 100

\* the chunks the classifiers build: left chunks of high weight, center
\* chunks of high weight (one that ends its line, one that only holds a
\* child), right chunks of low and of high weight
EntryChunks ==
  {Chunk("Other", "Left", "Left", ChunkWeight_value("High"), Some(text_of("l", w)), FALSE, TRUE, FALSE, FALSE, << >>) :
     w \in 1..MaxSlotWidth}
  \cup {Chunk("Other", "Center", "Left", ChunkWeight_value("High"), Some(text_of("c", 2)), TRUE, TRUE, FALSE, f, << >>) :
          f \in BOOLEAN}
  \cup {Chunk("Other", "Center", "Left", ChunkWeight_value("High"), None, FALSE, FALSE, FALSE, FALSE,
              <<Chunk("Other", "Center", "Left", ChunkWeight_value("High"), Some(text_of("c", 1)),
                      FALSE, FALSE, TRUE, FALSE, << >>)>>)}
  \cup {Chunk("Other", "Right", "Left", ChunkWeight_value(weight), Some(text_of("r", w)), TRUE, TRUE, FALSE, FALSE, << >>) :
          w \in 1..MaxSlotWidth, weight \in {"Low", "High"}}

\* the wrap widths a renderer passes: none, a narrow terminal, a wide one
RenderWidths == {None} \cup {Some(w) : w \in (1..MaxRenderWidth) \cup {WideTerminal}}

\* before the call: the entry under construction
styled_started ==
  [pc |-> "entry", entry |-> [chunks |-> << >>], wrap_width |-> None,
   rows |-> << >>, panicked |-> FALSE]

\* a classifier adds a chunk to the entry
EntryPush ==
  /\ cr.pc = "entry"
  /\ Len(cr.entry.chunks) < MaxEntryChunks
  /\ \E chunk \in EntryChunks :
       cr' = [cr EXCEPT !.entry.chunks = Append(@, chunk)]
  /\ UNCHANGED <<rs, lp, ro, rd, mn>>

\* a renderer calls styled_render on the entry
StyledRender ==
  /\ cr.pc = "entry"
  /\ \E wrap_width \in RenderWidths :
       LET out == styled_render(cr.entry, wrap_width)
       IN cr' = [cr EXCEPT !.pc = "rendered", !.wrap_width = wrap_width,
                           !.rows = out.rows, !.panicked = out.panicked]
  /\ UNCHANGED <<rs, lp, ro, rd, mn>>

InitStyled ==
  /\ cr = styled_started
  /\ rs = RenderState_new
  /\ lp = LoopIdle
  /\ ro = OrderedIdle
  /\ rd = ReaderIdle
  /\ mn = MainIdle

NextStyled == EntryPush \/ StyledRender

SpecStyled == InitStyled /\ [][NextStyled]_vars

\* some output row holds content of a right-slot chunk
right_content_shown == \E n \in 1..Len(cr.rows) : \E k \in 1..Len(cr.rows[n]) : cr.rows[n][k] = "r"

\* the wrap width is known and left_width + right_width + 2 <= wrap_width
right_column_fits ==
  /\ cr.wrap_width # None
  /\ largest_chunk(styled_left_rendered(cr.entry, cr.wrap_width))
       + largest_chunk(styled_right_rendered(cr.entry, cr.wrap_width)) + 2 <= cr.wrap_width[1]

\* C19: styled_render emits right-slot content only when a wrap width is
\* known and left_width + right_width + 2 <= wrap_width; when the wrap width
\* is unknown, or the right column does not fit, no output row holds
\* right-slot content.
C19_RightOnlyWhenItFits ==
  (cr.pc = "rendered" /\ right_content_shown) => right_column_fits

(***************************************************************************)
(* Classification of a message (src/classifier/mod.rs): a parser builds    *)
(* the message, and classify is called on it twice, as it is for two equal *)
(* messages or for one message rendered again.                             *)
(***************************************************************************)
\* the most metadata fields of a message
MaxFields == 3

\* the metadata keys and values of the messages; an empty value is skipped
\* by classify_metadata
MetaKeys == {<<"a">>, <<"b">>, <<"c", "c">>}
MetaVals == {<< >>, <<"1">>, <<"2", "2">>}

\* the texts of the messages: none, one line, two lines
MessageTexts == {None, Some(<<<<"t">>>>), Some(<<<<"t">>, <<"u", "u">>>>)}

\* the message before the parser has filled it
classify_started ==
  [pc |-> "message", message |-> [text |-> None, metadata |-> {}],
   first |-> << >>, second |-> << >>]

\* the keys of the metadata map
keys_of(metadata) == {field.key : field \in metadata}

\* the parser inserts a field into message.metadata
MetadataInsert ==
  /\ cr.pc = "message"
  /\ Cardinality(cr.message.metadata) < MaxFields
  /\ \E key \in MetaKeys \ keys_of(cr.message.metadata), val \in MetaVals :
       cr' = [cr EXCEPT !.message.metadata = @ \cup {[key |-> key, val |-> val]}]
  /\ UNCHANGED <<rs, lp, ro, rd, mn>>

\* the parser sets the text of the message
MessageText ==
  /\ cr.pc = "message"
  /\ cr.message.text = None
  /\ \E text \in MessageTexts \ {None} : cr' = [cr EXCEPT !.message.text = text]
  /\ UNCHANGED <<rs, lp, ro, rd, mn>>

\* classify is called on the message
ClassifyFirst ==
  /\ cr.pc = "message"
  /\ \E iteration \in HashMap_iter(cr.message.metadata) :
       cr' = [cr EXCEPT !.pc = "once", !.first = classify(cr.message, iteration)]
  /\ UNCHANGED <<rs, lp, ro, rd, mn>>

\* classify is called on an equal message
ClassifySecond ==
  /\ cr.pc = "once"
  /\ \E iteration \in HashMap_iter(cr.message.metadata) :
       cr' = [cr EXCEPT !.pc = "twice", !.second = classify(cr.message, iteration)]
  /\ UNCHANGED <<rs, lp, ro, rd, mn>>

InitClassify ==
  /\ cr = classify_started
  /\ rs = RenderState_new
  /\ lp = LoopIdle
  /\ ro = OrderedIdle
  /\ rd = ReaderIdle
  /\ mn = MainIdle

NextClassify == MetadataInsert \/ MessageText \/ ClassifyFirst \/ ClassifySecond

SpecClassify == InitClassify /\ [][NextClassify]_vars

\* the width a chunk has when rendered: its value and its children merged
\* with the padding rule, fixed widths applied
rendered_width(chunk) == merge_chunks(styled_render_chunk(chunk, None)).width

\* C21: for every chunk that classify builds, Chunk::measure returns exactly
\* the width the chunk has when rendered (value and children merged with the
\* padding rule, fixed widths applied to Date, Time and Level values).
C21_MeasureIsRenderedWidth ==
  cr.pc # "message" =>
    \A n \in 1..Len(cr.first) : Chunk_measure(cr.first[n]) = rendered_width(cr.first[n])

\* C22: classify is deterministic: two calls on equal messages yield the same
\* chunk sequence, whatever the iteration order of the metadata map.
C22_ClassifyDeterministic ==
  cr.pc = "twice" => cr.first = cr.second

(***************************************************************************)
(* C23: paging from the edge of the page                                   *)
(***************************************************************************)
\* the summed rendered heights of the k filtered entries next to entry i,
\* above it (dir = -1) or below it (dir = 1)
RECURSIVE heights_beside(_, _, _, _)
heights_beside(state, i, dir, k) ==
  IF k = 0 THEN 0
  ELSE entry_lines(state, i + dir * k) + heights_beside(state, i, dir, k - 1)

\* the largest k of at most most entries beside entry i whose summed rendered
\* heights do not exceed height - 2 (no entry where not even one fits)
page_of(state, i, dir, most) ==
  CHOOSE k \in 0..most :
    /\ k = 0 \/ heights_beside(state, i, dir, k) <= state.height - 2
    /\ \A j \in (k + 1)..most : heights_beside(state, i, dir, j) > state.height - 2

\* the selection is on a filtered entry
selection_valid(state) ==
  /\ ~state.panicked
  /\ state.log.selection # None
  /\ state.log.selection[1].rel_index < Len(state.filtered_entries)

\* the selection of the state sits at index i
selected_at(state, i) ==
  state.log.selection # None /\ state.log.selection[1].rel_index = i

\* C23: PageUp with the selection on the first displayed entry
\* (rel_index = range_min > 0) moves the selection up by the largest k such
\* that the rendered heights of the k filtered entries just above it sum to at
\* most height - 2, filters active or not; PageDown from the last displayed
\* entry (rel_index = range_max, not the last entry) is symmetric.
C23_PageMovesByFilteredHeights ==
  selection_valid(rs) =>
    LET i == rs.log.selection[1].rel_index
        n == Len(rs.filtered_entries)
    IN /\ (i = rs.log.range_min /\ i > 0 /\ ~move_selection_page_up(rs).panicked)
            => selected_at(move_selection_page_up(rs), i - page_of(rs, i, -1, i))
       /\ (i = rs.log.range_max /\ i < n - 1 /\ ~move_selection_page_down(rs).panicked)
            => selected_at(move_selection_page_down(rs), i + page_of(rs, i, 1, n - 1 - i))

(***************************************************************************)
(* C24: the height of the selection's anchor after a render pass           *)
(***************************************************************************)
\* the state after a render pass at the given terminal size
rendered_at(state, w, h) == render(set_size(state, w, h))

\* the anchor of the selection records the rendered height of the selected entry
anchor_height_known(state) ==
  /\ state.log.selection # None
  /\ state.log.selection[1].rel_index < Len(state.filtered_entries)
  /\ state.log.selection[1].anchor.height
       = Some(entry_lines(state, state.log.selection[1].rel_index))

\* C24: after every render pass with a selection and at least one filtered
\* entry, the height of the selection's anchor is known and equals the number
\* of lines the selected entry rendered to.
C24_AnchorHeightFilledByRender ==
  (~rs.panicked /\ rs.log.selection # None /\ rs.filtered_entries # << >>) =>
    \A w \in Widths, h \in Heights :
      ~rendered_at(rs, w, h).panicked => anchor_height_known(rendered_at(rs, w, h))

(***************************************************************************)
(* C25: a new entry and the selection, in the states of Spec and for every *)
(* message the reader or the UI can add                                    *)
(***************************************************************************)
\* the entries add_entry is called with: the reader's messages and the UI's
\* internal message
AddedEntries == SpecMsgs \cup {MessageEntry_internal}

\* what a render pass shows of the selection and of the entries from the top
\* of the page down to it is the same in the two states
same_view(s, t, i) ==
  /\ s.panicked = t.panicked
  /\ s.log.selection = t.log.selection
  /\ s.log.range_min = t.log.range_min
  /\ \A j \in DOMAIN s.log.anchors :
       j <= i => (j \in DOMAIN t.log.anchors /\ t.log.anchors[j] = s.log.anchors[j])

\* C25: while a selection exists, add_entry changes neither its rel_index nor
\* its anchor, that rel_index denotes the same entry afterwards, and a render
\* pass shows the selected entry and the entries above it where it would have
\* shown them without the new entry.
C25_AddEntryKeepsSelection ==
  (~rs.panicked /\ rs.log.selection # None) =>
    \A entry \in AddedEntries :
      LET i == rs.log.selection[1].rel_index
          new == add_entry(rs, entry)
      IN /\ new.log.selection = rs.log.selection
         /\ i < Len(rs.filtered_entries)
         /\ At(new.filtered_entries, i) = At(rs.filtered_entries, i)
         /\ \A w \in Widths, h \in Heights :
              same_view(rendered_at(rs, w, h), rendered_at(new, w, h), i)

\* C25's case: the earlier of two entries is selected while a filter is
\* active, and the message that arrives passes the filter
C25_Witness ==
  /\ ~rs.panicked
  /\ rs.log.selection # None
  /\ rs.log.selection[1].rel_index = 0
  /\ Len(rs.filtered_entries) = 2
  /\ rs.filters # << >>
  /\ Len(add_entry(rs, MsgPlainA).filtered_entries) = 3
  /\ At(add_entry(rs, MsgPlainA).filtered_entries, 0) = At(rs.filtered_entries, 0)

(***************************************************************************)
(* SpecFollow: the thread of follow_log (reader/kubernetes.rs) for one     *)
(* container.  rd.retries is the local of that name; rd.i is the index of  *)
(* enumerate() in the stream being read.  rd.attempts, rd.before, rd.hi,   *)
(* rd.long and rd.good record the history the properties speak about.      *)
(***************************************************************************)
\* the log requests that are followed at most (the loop has no such bound)
MaxAttempts == 5
\* the lines a stream yields at most before it ends
MaxStreamLines == 3

\* what get_container_status returns: running, terminated, any other state
\* (waiting), Ok(None), Err(e)
ContainerStatuses == {"running", "terminated", "waiting", "removed", "error"}

\* should_stop_following with the test of state.terminated left out
should_stop_following_running(status) ==
  CASE status = "running" -> [message |-> "interrupted", stop |-> FALSE]
    [] status = "terminated" -> [message |-> "none", stop |-> FALSE]
    [] status = "waiting" -> [message |-> "none", stop |-> FALSE]
    [] status = "removed" -> [message |-> "removed", stop |-> TRUE]
    [] status = "error" -> [message |-> "error watching", stop |-> TRUE]

\* should_stop_following: the internal message it sends and its result
should_stop_following(status) ==
  CASE status = "running" -> [message |-> "interrupted", stop |-> FALSE]
    [] status = "terminated" -> [message |-> "terminated", stop |-> TRUE]
    [] status = "waiting" -> [message |-> "none", stop |-> FALSE]
    [] status = "removed" -> [message |-> "removed", stop |-> TRUE]
    [] status = "error" -> [message |-> "error watching", stop |-> TRUE]

\* the thread as spawned: "let mut retries = 0", at the head of the loop
follow_started ==
  [pc |-> "loop", retries |-> 0, i |-> 0, last |-> "none", status |-> None,
   attempts |-> 0, before |-> 0, hi |-> None, long |-> 0, good |-> 0]

\* the head of the loop: "if retries > 2 { giving up; break }", else the
\* sleep and the first should_stop_following
FollowLoop ==
  /\ rd.pc = "loop"
  /\ IF rd.retries > 2
       THEN rd' = [rd EXCEPT !.pc = "stopped", !.last = "giving up"]
       ELSE \E status \in ContainerStatuses :
              LET check == should_stop_following(status)
              IN /\ (rd.attempts < MaxAttempts \/ check.stop)
                 /\ rd' = [rd EXCEPT !.status = Some(status),
                                     !.last = IF check.stop THEN check.message
                                              ELSE "started watching",
                                     !.pc = IF check.stop THEN "stopped" ELSE "request"]
  /\ UNCHANGED <<rs, lp, ro, mn, cr>>

\* the request: Err(e) and a non-success status count a retry and continue;
\* otherwise the stream is read
FollowRequest ==
  /\ rd.pc = "request"
  /\ \E response \in {"err", "failure", "success"} :
       IF response = "success"
         THEN rd' = [rd EXCEPT !.pc = "stream", !.i = 0, !.hi = None,
                               !.before = rd.retries,
                               !.attempts = rd.attempts + 1]
         ELSE rd' = [rd EXCEPT !.pc = "loop", !.last = "error watching",
                               !.retries = rd.retries + 1, !.i = 0, !.hi = None,
                               !.before = rd.retries,
                               !.attempts = rd.attempts + 1]
  /\ UNCHANGED <<rs, lp, ro, mn, cr>>

\* one turn of "for (i, line) in reader.lines().enumerate()": a bad line and
\* a line LogEntry::message has no entry for are skipped by "continue"; an
\* entry is sent, and "if i > 1 { retries = 0 }"
FollowLine ==
  /\ rd.pc = "stream"
  /\ rd.i < MaxStreamLines
  /\ \E line \in {"bad", "no entry", "entry"} :
       IF line = "entry"
         THEN rd' = [rd EXCEPT !.i = rd.i + 1, !.last = "entry",
                               !.hi = Some(rd.i),
                               !.retries = IF rd.i > 1 THEN 0 ELSE rd.retries]
         ELSE rd' = [rd EXCEPT !.i = rd.i + 1]
  /\ UNCHANGED <<rs, lp, ro, mn, cr>>

\* the stream ends: "retries += 1", the sleep of 500 ms and the second
\* should_stop_following
FollowStreamEnd ==
  /\ rd.pc = "stream"
  /\ \E status \in ContainerStatuses :
       LET check == should_stop_following(status)
       IN rd' = [rd EXCEPT !.retries = rd.retries + 1,
                           !.status = Some(status),
                           !.last = IF check.message = "none" THEN rd.last
                                    ELSE check.message,
                           !.pc = IF check.stop THEN "stopped" ELSE "loop",
                           !.long = IF rd.i >= 3 THEN rd.long + 1 ELSE rd.long,
                           !.good = IF rd.hi # None /\ rd.hi[1] >= 2
                                      THEN rd.good + 1 ELSE rd.good]
  /\ UNCHANGED <<rs, lp, ro, mn, cr>>

InitFollow ==
  /\ rd = follow_started
  /\ rs = RenderState_new
  /\ lp = LoopIdle
  /\ ro = OrderedIdle
  /\ mn = MainIdle
  /\ cr = CommonIdle

NextFollow == FollowLoop \/ FollowRequest \/ FollowLine \/ FollowStreamEnd

SpecFollow == InitFollow /\ [][NextFollow]_vars

\* the stream of the last attempt has ended
stream_ended == rd.pc \in {"loop", "stopped"} /\ rd.attempts > 0 /\ rd.i > 0

\* the follower stops at every check that finds the container terminated or
\* removed
stops_when_gone ==
  (rd.status # None /\ rd.status[1] \in {"terminated", "removed"}) => rd.pc = "stopped"

\* C26 as stated: while every attempt fails (request error, non-success
\* status, or a stream that ends after fewer than 3 lines) there are at most
\* 3 attempts, and exactly 3 when the follower gives up; an attempt whose
\* stream yields at least 3 lines resets the count of retries, so that only
\* the end of that stream is counted; terminated or removed stops it.
C26_Original ==
  /\ rd.long = 0 => (rd.attempts <= 3 /\ (rd.last = "giving up" => rd.attempts = 3))
  /\ (stream_ended /\ rd.i >= 3) => rd.retries = 1
  /\ stops_when_gone

\* C26, amended: a line counts only when it is forwarded as an entry and its
\* index in the stream is 2 or more.  While no attempt forwards such a line
\* there are at most 3 attempts, and exactly 3 when the follower gives up;
\* an attempt that forwards such a line resets the count of retries, so
\* that only the end of its stream is counted, and any other stream adds one
\* to the count; terminated or removed stops the follower.
C26_FollowRetry ==
  /\ rd.good = 0 => (rd.attempts <= 3 /\ (rd.last = "giving up" => rd.attempts = 3))
  /\ stream_ended =>
       rd.retries = (IF rd.hi # None /\ rd.hi[1] >= 2 THEN 1 ELSE rd.before + 1)
  /\ stops_when_gone

\* three failed attempts, then "giving up"
C26_Witness ==
  /\ rd.pc = "stopped"
  /\ rd.last = "giving up"
  /\ rd.attempts = 3
  /\ rd.good = 0

\* a stream of three lines, none of them forwarded, has ended; the count of
\* retries was not reset
C26_Counterexample ==
  /\ stream_ended
  /\ rd.i >= 3
  /\ rd.hi = None
  /\ rd.retries > 1

(***************************************************************************)
(* C27: the lookup anchors[&desired_index] of move_selection, in the loop  *)
(***************************************************************************)
\* the index move_selection looks up in the anchors when it takes the branch
\* "selected message is already on-screen", None when it takes another path
on_screen_index(state, amount) ==
  IF amount = 0 \/ Len(state.filtered_entries) = 0 THEN None
  ELSE
    LET n == Len(state.filtered_entries)
        cur == state.log.selection
        new == IF cur # None THEN Max2(cur[1].rel_index - amount, 0)
               ELSE Max2(n - amount, 0)
    IN IF cur # None /\ new >= n THEN None
       ELSE IF cur = None /\ amount < 0 THEN None
       ELSE IF new < state.log.range_min \/ new > state.log.range_max THEN None
       ELSE Some(new)

\* the amount the loop is about to call move_selection with: the next key
\* event is Up or Down
pending_move ==
  IF lp.pc = "keys" /\ lp.keys # << >> /\ Head(lp.keys) \in {"Up", "Down"}
    THEN Some(IF Head(lp.keys) = "Up" THEN 1 ELSE -1)
    ELSE None

\* C27: whenever the loop is about to handle Up or Down and move_selection
\* will take its on-screen branch (range_min <= index <= range_max), the
\* anchors map has the index, so that anchors[&desired_index] does not panic.
C27_OnScreenIndexHasAnchor ==
  pending_move # None =>
    LET target == on_screen_index(rs, pending_move[1])
    IN target # None => target[1] \in DOMAIN rs.log.anchors

(***************************************************************************)
(* SpecFlood: the loop with a reader that never stops sending.  The loop   *)
(* treats every LogEntry alike in "for entry in rx.try_iter()"; to keep    *)
(* the list of entries finite the reader sends FloodMaxMessages messages   *)
(* and, at any time, entries that add no message (LogEntry::eof).          *)
(***************************************************************************)
\* the messages the flooding reader sends
FloodMaxMessages == 1
\* the entries the channel holds at most
FloodMaxQueue == 2

FloodKeys == {"Up", "Ctrl-q"}

\* the reader sends an entry; the channel has no bound in the code
FloodSend ==
  \E e \in {LogEntry_message(m) : m \in SpecMsgs} \cup {LogEntry_eof} :
    /\ loop_running
    /\ Len(lp.rx) < FloodMaxQueue
    /\ e.message # None => lp.sends < FloodMaxMessages
    /\ lp' = [lp EXCEPT !.rx = Append(@, e),
                        !.sends = IF e.message # None THEN @ + 1 ELSE @,
                        !.produced = IF e.message # None THEN Append(@, e.message[1]) ELSE @]
    /\ UNCHANGED <<rs, ro, rd, mn, cr>>

\* the user presses a key
FloodKey ==
  \E key \in FloodKeys :
    /\ loop_running
    /\ lp.presses < LoopMaxKeys
    /\ lp' = [lp EXCEPT !.keys = Append(@, key), !.presses = @ + 1]
    /\ UNCHANGED <<rs, ro, rd, mn, cr>>

NextFlood ==
  \/ FloodSend \/ FloodKey
  \/ LoopDrain \/ LoopDrainEnd \/ LoopKey \/ LoopKeysEnd
  \/ LoopPollRender \/ LoopSleep

\* the renderer thread runs whenever it can; the reader and the user act as
\* they like
SpecFlood ==
  /\ InitLoop
  /\ [][NextFlood]_vars
  /\ WF_vars(LoopDrain) /\ WF_vars(LoopDrainEnd) /\ WF_vars(LoopKey)
  /\ WF_vars(LoopKeysEnd) /\ WF_vars(LoopPollRender) /\ WF_vars(LoopSleep)

\* C28: a key event that is pending (quit included) comes to be handled,
\* and an iteration that is dirty comes to its redraw, as long as the loop
\* runs, whatever the reader sends: the drain of the channel does not put
\* off the key handling and the redraw for ever.
C28_DrainDoesNotStarveKeys ==
  /\ [](lp.keys # << >> => <>(lp.keys = << >> \/ ~loop_running))
  /\ [](lp.dirty => <>(lp.last_render = Some(0) \/ ~loop_running))

(***************************************************************************)
(* C29: how long the reorder worker holds a message                        *)
(***************************************************************************)
\* the reorder worker runs whenever it can; the wrapped reader sends when it
\* likes, MaxSent entries at most
SpecOrderedFair ==
  /\ SpecOrdered
  /\ WF_vars(OrderedStart) /\ WF_vars(OrderedSleep)
  /\ WF_vars(OrderedDrain) /\ WF_vars(OrderedDrainEnd)
  /\ WF_vars(OrderedEvict) /\ WF_vars(OrderedEvictEnd)

\* the message of the given order of arrival is in the heap
buffered(id) == \E e \in ro.heap : e.entry.id = id

\* a pass of the loop has ended without Eof: the worker is about to sleep
pass_ended == ro.pc = "sleep"

\* C29 as stated: without Eof, a pass of the loop leaves no message in the
\* heap that has been held for the buffer duration, whatever arrived after
\* it; and no message stays in the heap for ever.
C29_EmittedOnceHeldLongEnough ==
  /\ [](pass_ended => \A e \in ro.heap : ~evictable(ro, e))
  /\ \A id \in 1..MaxSent : [](buffered(id) => <>(~buffered(id)))

\* C29, amended: a message that has been held for the buffer duration is
\* left in the heap by a pass only behind a message that arrived later, has
\* a timestamp that is not larger, and is still short of the deadline; once
\* the reader sends nothing more, no message stays in the heap for ever.
C29_HeldOnlyBehindSmallerTimestamp ==
  /\ [](pass_ended =>
          \A e \in ro.heap :
            evictable(ro, e) =>
              \E o \in ro.heap : /\ o.entry.id > e.entry.id
                                 /\ o.timestamp <= e.timestamp
                                 /\ ~evictable(ro, o))
  /\ \A id \in 1..MaxSent : [](buffered(id) => <>(~buffered(id)))

\* C29's case: a pass has ended with a message in the heap that has been
\* held for the buffer duration, behind a later one of a smaller timestamp
C29_Witness ==
  /\ pass_ended
  /\ \E e, o \in ro.heap : /\ evictable(ro, e)
                           /\ o.entry.id > e.entry.id
                           /\ o.timestamp < e.timestamp
                           /\ ~evictable(ro, o)

(***************************************************************************)
(* C30: the progress of PageUp                                             *)
(***************************************************************************)
\* C30: in every state with a selection at rel_index > 0,
\* move_selection_page_up returns a state whose selection is at a strictly
\* smaller rel_index.
C30_PageUpMovesUp ==
  (~rs.panicked /\ rs.log.selection # None /\ rs.log.selection[1].rel_index > 0) =>
    LET moved == move_selection_page_up(rs)
    IN /\ ~moved.panicked
       /\ moved.log.selection # None
       /\ moved.log.selection[1].rel_index < rs.log.selection[1].rel_index

====
